---- MODULE Spec2Model ----
(***************************************************************************)
(* Model of the F&I description enhancer:                                  *)
(*   services/sanitizer.js   sanitizeStyle, sanitizeAttributes,            *)
(*                           sanitizeHTML, validateHTML                    *)
(*   compliance service      checkCompliance, hasDisclaimer,               *)
(*                           ensureDisclaimer, validateForPublishing       *)
(*   services/enhancer.js    enhanceDescriptions                           *)
(*   services/pdf-extractor  extractFromPDF, calculateConfidence           *)
(*   server.js               POST /api/enhance, POST /api/extract-pdf      *)
(*   worker, public/app.js   handleEnhancement and the handlers of the     *)
(*                           previews, the edit fields, the modes and the  *)
(*                           requests in flight                            *)
(* A JavaScript string is a sequence of one-character strings, so that the *)
(* regular expressions of the source are modelled by what they match,      *)
(* character by character.                                                 *)
(***************************************************************************)
EXTENDS Integers, Sequences, FiniteSets, TLC

VARIABLES
  fn,     \* the function of the core that was called ("none" before the call)
  arg,    \* its first argument, a JavaScript value
  arg2,   \* its second argument (checkCompliance)
  given,  \* how the argument was written: the parts the input was built from
  pc,     \* "ready", "returned" or "returned2"
  out,    \* the outcome of the call
  out2,   \* the outcome of calling the function again on its own result
  page    \* the front end: its previews, edit fields and current results

vars == <<fn, arg, arg2, given, pc, out, out2, page>>

(***************************************************************************)
(* Characters and character classes of the JavaScript regular expressions. *)
(***************************************************************************)
UpperChars ==
  <<"A","B","C","D","E","F","G","H","I","J","K","L","M",
    "N","O","P","Q","R","S","T","U","V","W","X","Y","Z">>

LowerChars ==
  <<"a","b","c","d","e","f","g","h","i","j","k","l","m",
    "n","o","p","q","r","s","t","u","v","w","x","y","z">>

UpperSet == {UpperChars[k] : k \in DOMAIN UpperChars}

LowerSet == {LowerChars[k] : k \in DOMAIN LowerChars}

DigitSet == {"0","1","2","3","4","5","6","7","8","9"}

\* [a-zA-Z]
LetterSet == UpperSet \cup LowerSet

\* [a-zA-Z0-9]
AlnumSet == LetterSet \cup DigitSet

\* \w
WordSet == AlnumSet \cup {"_"}

\* \s (of its characters, those the inputs of the model use)
SpaceSet == {" ", "\n", "\t"}

LowerOf ==
  [c \in UpperSet |-> LowerChars[CHOOSE k \in DOMAIN UpperChars : UpperChars[k] = c]]

\* String.prototype.toLowerCase on one character; the "i" flag of a pattern
Lower(c) == IF c \in UpperSet THEN LowerOf[c] ELSE c

toLowerCase(s) == [k \in 1..Len(s) |-> Lower(s[k])]

\* s[i..j], empty when j < i
Slice(s, i, j) == IF j < i THEN <<>> ELSE SubSeq(s, i, j)

\* the literal lit (given in lower case) stands at position i of s, in any
\* letter case
LitAtCI(s, i, lit) ==
  /\ i >= 1
  /\ i + Len(lit) - 1 <= Len(s)
  /\ \A k \in 1..Len(lit) : Lower(s[i + k - 1]) = lit[k]

\* the literal lit stands at position i of s, case-sensitively
LitAt(s, i, lit) ==
  /\ i >= 1
  /\ i + Len(lit) - 1 <= Len(s)
  /\ \A k \in 1..Len(lit) : s[i + k - 1] = lit[k]

\* least position >= i where lit stands (any case), 0 when there is none
FindLitCI(s, i, lit) ==
  LET hits == {k \in i..Len(s) : LitAtCI(s, k, lit)}
  IN  IF hits = {} THEN 0 ELSE CHOOSE k \in hits : \A m \in hits : k <= m

\* String.prototype.includes
includes(s, lit) == \E k \in 1..Len(s) : LitAt(s, k, lit)

\* least position >= i holding a character of set cs, 0 when there is none
FindChar(s, i, cs) ==
  LET hits == {k \in i..Len(s) : s[k] \in cs}
  IN  IF hits = {} THEN 0 ELSE CHOOSE k \in hits : \A m \in hits : k <= m

\* first position >= i whose character is not in cs (Len(s)+1 when the run
\* reaches the end): the end of a greedy cs* starting at i
RunEnd(s, i, cs) ==
  LET stops == {k \in i..Len(s) : s[k] \notin cs}
  IN  IF stops = {} THEN Len(s) + 1 ELSE CHOOSE k \in stops : \A m \in stops : k <= m

\* String.prototype.trim
trim(s) ==
  LET keep == {k \in 1..Len(s) : s[k] \notin SpaceSet}
  IN  IF keep = {} THEN <<>>
      ELSE Slice(s, CHOOSE k \in keep : \A m \in keep : k <= m,
                    CHOOSE k \in keep : \A m \in keep : k >= m)

(***************************************************************************)
(* Configuration of the sanitizer.                                         *)
(***************************************************************************)
ALLOWED_TAGS ==
  { <<"p">>, <<"s","t","r","o","n","g">>, <<"e","m">>, <<"u","l">>,
    <<"l","i">>, <<"b","r">>, <<"s","p","a","n">> }

ALLOWED_STYLE_PROPERTIES ==
  { <<"f","o","n","t","-","s","i","z","e">>,
    <<"f","o","n","t","-","s","t","y","l","e">> }

\* /lit/gi
PLit(lit) == [kind |-> "lit", a |-> lit, b |-> <<>>]

\* /on\w+\s*=/gi
PEvent == [kind |-> "event", a |-> <<"o","n">>, b |-> <<>>]

\* /on\w+=/gi
PEventStrict == [kind |-> "eventStrict", a |-> <<"o","n">>, b |-> <<>>]

\* /<name[\s\S]*?<\/name>/gi
PBlock(open, close) == [kind |-> "block", a |-> open, b |-> close]

\* /<name[\s\S]*?>/gi
POpen(open) == [kind |-> "open", a |-> open, b |-> <<>>]

JAVASCRIPT_SCHEME == <<"j","a","v","a","s","c","r","i","p","t",":">>

VBSCRIPT_SCHEME == <<"v","b","s","c","r","i","p","t",":">>

DATA_SCHEME == <<"d","a","t","a",":">>

DANGEROUS_PATTERNS ==
  << PLit(JAVASCRIPT_SCHEME),
     PLit(VBSCRIPT_SCHEME),
     PLit(DATA_SCHEME),
     PEvent,
     PBlock(<<"<","s","c","r","i","p","t">>, <<"<","/","s","c","r","i","p","t",">">>),
     POpen(<<"<","s","c","r","i","p","t">>),
     PLit(<<"<","/","s","c","r","i","p","t",">">>),
     POpen(<<"<","i","f","r","a","m","e">>),
     POpen(<<"<","o","b","j","e","c","t">>),
     POpen(<<"<","e","m","b","e","d">>),
     POpen(<<"<","l","i","n","k">>),
     POpen(<<"<","m","e","t","a">>),
     PBlock(<<"<","s","t","y","l","e">>, <<"<","/","s","t","y","l","e",">">>),
     POpen(<<"<","s","t","y","l","e">>) >>

(***************************************************************************)
(* Matching one pattern at one position: the position after the match, or  *)
(* 0 when the pattern does not match at i.  No pattern matches the empty   *)
(* string.                                                                 *)
(***************************************************************************)
MatchEnd(s, i, pat) ==
  IF ~LitAtCI(s, i, pat.a) THEN 0
  ELSE LET j == i + Len(pat.a) IN
    CASE pat.kind = "lit" -> j
      [] pat.kind \in {"event", "eventStrict"} ->
           \* \w+ is greedy and "=" and \s are not word characters, so the
           \* longest run is the only one that can be followed by \s*=
           LET w  == RunEnd(s, j, WordSet)
               sp == IF pat.kind = "event" THEN RunEnd(s, w, SpaceSet) ELSE w
           IN  IF w > j /\ sp <= Len(s) /\ s[sp] = "=" THEN sp + 1 ELSE 0
      [] pat.kind = "block" ->
           \* [\s\S]*? is lazy: up to the first closing literal
           LET c == FindLitCI(s, j, pat.b)
           IN  IF c = 0 THEN 0 ELSE c + Len(pat.b)
      [] pat.kind = "open" ->
           LET g == FindChar(s, j, {">"})
           IN  IF g = 0 THEN 0 ELSE g + 1

\* least position >= i where pat matches, 0 when there is none
NextMatch(s, i, pat) ==
  LET hits == {k \in i..Len(s) : MatchEnd(s, k, pat) # 0}
  IN  IF hits = {} THEN 0 ELSE CHOOSE k \in hits : \A m \in hits : k <= m

RECURSIVE ReplaceFrom(_, _, _, _)
\* s.replace(pat, rep) from position i on: leftmost matches, not overlapping,
\* found in one pass over the original string
ReplaceFrom(s, i, pat, rep) ==
  LET k == NextMatch(s, i, pat)
  IN  IF k = 0 THEN Slice(s, i, Len(s))
      ELSE Slice(s, i, k - 1) \o rep \o ReplaceFrom(s, MatchEnd(s, k, pat), pat, rep)

ReplaceAll(s, pat, rep) == ReplaceFrom(s, 1, pat, rep)

\* s.replace(pat, '')
Remove(s, pat) == ReplaceAll(s, pat, <<>>)

RECURSIVE RemoveEach(_, _, _)
\* for (const pattern of DANGEROUS_PATTERNS) sanitized = sanitized.replace(pattern, '')
RemoveEach(s, pats, k) ==
  IF k > Len(pats) THEN s
  ELSE CHOOSE r \in {RemoveEach(t, pats, k + 1) : t \in {Remove(s, pats[k])}} : TRUE

(***************************************************************************)
(* sanitizeStyle                                                           *)
(***************************************************************************)
RECURSIVE split(_, _)
\* String.prototype.split on one separator character
split(s, sep) ==
  LET k == FindChar(s, 1, {sep})
  IN  IF k = 0 THEN <<s>>
      ELSE <<Slice(s, 1, k - 1)>> \o split(Slice(s, k + 1, Len(s)), sep)

RECURSIVE join(_, _)
\* Array.prototype.join
join(parts, sep) ==
  IF parts = <<>> THEN <<>>
  ELSE IF Len(parts) = 1 THEN parts[1]
  ELSE parts[1] \o sep \o join(Tail(parts), sep)

EXPRESSION_MARK == <<"e","x","p","r","e","s","s","i","o","n">>

JAVASCRIPT_MARK == <<"j","a","v","a","s","c","r","i","p","t">>

URL_MARK == <<"u","r","l","(">>

\* the value test of sanitizeStyle: String.prototype.includes, case-sensitive
styleValueSafe(value) ==
  /\ ~includes(value, EXPRESSION_MARK)
  /\ ~includes(value, JAVASCRIPT_MARK)
  /\ ~includes(value, URL_MARK)

\* one declaration of the style value: the sequence of the parts it pushes
\* (none or one)
stylePart(part) ==
  LET trimmed    == trim(part)
      colonIndex == FindChar(trimmed, 1, {":"})
      property   == toLowerCase(trim(Slice(trimmed, 1, colonIndex - 1)))
      value      == trim(Slice(trimmed, colonIndex + 1, Len(trimmed)))
  IN  IF trimmed = <<>> THEN <<>>
      ELSE IF colonIndex = 0 THEN <<>>
      ELSE IF property \in ALLOWED_STYLE_PROPERTIES /\ styleValueSafe(value)
           THEN << property \o <<":", " ">> \o value >>
           ELSE <<>>

RECURSIVE styleParts(_, _)
styleParts(parts, k) ==
  IF k > Len(parts) THEN <<>> ELSE stylePart(parts[k]) \o styleParts(parts, k + 1)

sanitizeStyle(styleValue) ==
  IF styleValue = <<>> THEN <<>>
  ELSE join(styleParts(split(styleValue, ";"), 1), <<";", " ">>)

(***************************************************************************)
(* sanitizeAttributes                                                      *)
(***************************************************************************)
QuoteSet == {"\"", "'"}

\* /style\s*=\s*["']([^"']*)["']/i at position i: the captured value in a
\* one-element sequence, or <<>> when there is no match at i
styleMatchAt(s, i) ==
  IF ~LitAtCI(s, i, <<"s","t","y","l","e">>) THEN <<>>
  ELSE LET e  == RunEnd(s, i + 5, SpaceSet)
           q  == RunEnd(s, e + 1, SpaceSet)
           c  == FindChar(s, q + 1, QuoteSet)
       IN  IF e <= Len(s) /\ s[e] = "=" /\ q <= Len(s) /\ s[q] \in QuoteSet /\ c # 0
           THEN << Slice(s, q + 1, c - 1) >>
           ELSE <<>>

\* attributeString.match(...): the leftmost match
styleMatch(s) ==
  LET hits == {k \in 1..Len(s) : styleMatchAt(s, k) # <<>>}
  IN  IF hits = {} THEN <<>>
      ELSE styleMatchAt(s, CHOOSE k \in hits : \A m \in hits : k <= m)

sanitizeAttributes(attributeString) ==
  IF attributeString = <<>> THEN <<>>
  ELSE LET m == styleMatch(attributeString)
       IN  IF m = <<>> THEN <<>>
           ELSE LET sanitizedStyle == sanitizeStyle(m[1])
                IN  IF sanitizedStyle = <<>> THEN <<>>
                    ELSE <<" ","s","t","y","l","e","=","\"">> \o sanitizedStyle \o <<"\"">>

(***************************************************************************)
(* sanitizeHTML                                                            *)
(***************************************************************************)
\* /<\/?([a-zA-Z][a-zA-Z0-9]*)\s*([^>]*)>/gi at position i.  The name is the
\* longest run of [a-zA-Z0-9], and [^>]* takes everything up to the first ">",
\* so the match exists as soon as a ">" follows the name.
TagMatch(s, i) ==
  LET closing == i + 1 <= Len(s) /\ s[i + 1] = "/"
      n == IF closing THEN i + 2 ELSE i + 1
      ne == RunEnd(s, n, AlnumSet)
      a == RunEnd(s, ne, SpaceSet)
      g == FindChar(s, ne, {">"})
  IN  IF i <= Len(s) /\ s[i] = "<" /\ n <= Len(s) /\ s[n] \in LetterSet /\ g # 0
      THEN [end |-> g + 1, closing |-> closing, tagName |-> Slice(s, n, ne - 1),
            attributes |-> Slice(s, a, g - 1)]
      ELSE [end |-> 0, closing |-> FALSE, tagName |-> <<>>, attributes |-> <<>>]

\* the callback of the second pass without the whitelist test: a tag that is
\* not allowed is kept like an allowed one
rewriteTag_NoWhitelist(m) ==
  LET lowerTag == toLowerCase(m.tagName)
  IN  IF m.closing THEN <<"<", "/">> \o lowerTag \o <<">">>
      ELSE IF lowerTag = <<"b","r">> THEN <<"<","b","r",">">>
      ELSE <<"<">> \o lowerTag \o sanitizeAttributes(m.attributes) \o <<">">>

\* the callback of the second pass
rewriteTag(m) ==
  LET lowerTag == toLowerCase(m.tagName)
  IN  IF lowerTag \notin ALLOWED_TAGS THEN <<>>
      ELSE IF m.closing THEN <<"<", "/">> \o lowerTag \o <<">">>
      ELSE IF lowerTag = <<"b","r">> THEN <<"<","b","r",">">>
      ELSE <<"<">> \o lowerTag \o sanitizeAttributes(m.attributes) \o <<">">>

\* least position >= i where a tag matches, 0 when there is none
NextTag(s, i) ==
  LET hits == {k \in i..Len(s) : TagMatch(s, k).end # 0}
  IN  IF hits = {} THEN 0 ELSE CHOOSE k \in hits : \A m \in hits : k <= m

RECURSIVE processTagsFrom(_, _)
processTagsFrom(s, i) ==
  LET k == NextTag(s, i)
  IN  IF k = 0 THEN Slice(s, i, Len(s))
      ELSE Slice(s, i, k - 1) \o rewriteTag(TagMatch(s, k))
             \o processTagsFrom(s, TagMatch(s, k).end)

processTags(s) == processTagsFrom(s, 1)

\* /<(\w+)[^>]*>\s*<\/\1>/gi at position i: [end, tag], end = 0 for no match.
\* \w+ backtracks from the longest name to the shortest; what it gives back
\* is taken by [^>]*.
EmptyMatch(s, i) ==
  LET we == RunEnd(s, i + 1, WordSet)
      g  == FindChar(s, i + 1, {">"})
      c  == RunEnd(s, g + 1, SpaceSet)
      fits(k) == /\ LitAt(s, c, <<"<", "/">>)
                 /\ LitAtCI(s, c + 2, toLowerCase(Slice(s, i + 1, i + k)))
                 /\ c + 2 + k <= Len(s)
                 /\ s[c + 2 + k] = ">"
      ks == IF i <= Len(s) /\ s[i] = "<" /\ g # 0
            THEN {k \in 1..(we - i - 1) : fits(k)} ELSE {}
  IN  IF ks = {} THEN [end |-> 0, tag |-> <<>>]
      ELSE LET k == CHOOSE x \in ks : \A y \in ks : x >= y
           IN  [end |-> c + 2 + k + 1, tag |-> Slice(s, i + 1, i + k)]

\* least position >= i where an empty pair matches, 0 when there is none
NextEmpty(s, i) ==
  LET hits == {k \in i..Len(s) : EmptyMatch(s, k).end # 0}
  IN  IF hits = {} THEN 0 ELSE CHOOSE k \in hits : \A m \in hits : k <= m

RECURSIVE cleanEmptyFrom(_, _)
cleanEmptyFrom(s, i) ==
  LET k == NextEmpty(s, i)
      m == EmptyMatch(s, k)
  IN  IF k = 0 THEN Slice(s, i, Len(s))
      ELSE IF toLowerCase(m.tag) = <<"p">>
           THEN Slice(s, i, m.end - 1) \o cleanEmptyFrom(s, m.end)
           ELSE Slice(s, i, k - 1) \o cleanEmptyFrom(s, m.end)

cleanEmpty(s) == cleanEmptyFrom(s, 1)

\* the first pass of sanitizeHTML
removeDangerous(s) == RemoveEach(s, DANGEROUS_PATTERNS, 1)

\* the third pass of sanitizeHTML
removeResidual(s) ==
  CHOOSE r \in {Remove(t, PEventStrict) : t \in {Remove(s, PLit(JAVASCRIPT_SCHEME))}} : TRUE

\* the passes without the final trim()
sanitizeString_NoTrim(html) ==
  CHOOSE r \in
    { cleanEmpty(p3) : p3 \in
      { removeResidual(p2) : p2 \in
        { processTags(p1) : p1 \in {removeDangerous(html)} } } } : TRUE

\* the body of sanitizeHTML for a non-empty string: the passes in order
sanitizeString(html) ==
  CHOOSE r \in
    { trim(p4) : p4 \in
      { cleanEmpty(p3) : p3 \in
        { removeResidual(p2) : p2 \in
          { processTags(p1) : p1 \in {removeDangerous(html)} } } } } : TRUE

(***************************************************************************)
(* JavaScript values, as far as the core looks at them: the type, what     *)
(* String(v) gives, and whether the value has the methods of a string.     *)
(***************************************************************************)
JsString(s) == [type |-> "string", str |-> s]

JsNull == [type |-> "null", str |-> <<"n","u","l","l">>]

JsUndefined == [type |-> "undefined", str |-> <<"u","n","d","e","f","i","n","e","d">>]

\* a number, by its decimal text
JsNumber(digits) == [type |-> "number", str |-> digits]

JsBoolean(b) ==
  [type |-> "boolean",
   str |-> IF b THEN <<"t","r","u","e">> ELSE <<"f","a","l","s","e">>]

\* a plain object: String({}) is "[object Object]"
JsObject ==
  [type |-> "object",
   str |-> <<"[","o","b","j","e","c","t"," ","O","b","j","e","c","t","]">>]

\* an array of strings: String(array) joins the elements with ","
JsArray(elems) == [type |-> "array", str |-> join(elems, <<",">>)]

\* a Symbol: String conversion inside a template literal throws
JsSymbol == [type |-> "symbol", str |-> <<>>]

\* ToBoolean
Truthy(v) ==
  CASE v.type \in {"null", "undefined"} -> FALSE
    [] v.type = "string" -> v.str # <<>>
    [] v.type = "number" -> v.str \notin { <<"0">>, <<"N","a","N">> }
    [] v.type = "boolean" -> v.str = <<"t","r","u","e">>
    [] OTHER -> TRUE

\* the outcome of a call: a returned value, or a thrown TypeError
Return(v) == [raised |-> FALSE, value |-> v]

Throw == [raised |-> TRUE, value |-> "TypeError"]

NoCall == [raised |-> FALSE, value |-> "none"]

\* sanitizeHTML without the typeof test: a truthy non-string has no replace method
sanitizeHTML_NoTypeCheck(html) ==
  IF ~Truthy(html) THEN Return(<<>>)
  ELSE IF html.type # "string" THEN Throw
  ELSE Return(sanitizeString(html.str))

sanitizeHTML(html) ==
  IF ~Truthy(html) \/ html.type # "string" THEN Return(<<>>)
  ELSE Return(sanitizeString(html.str))

\* /<\/?([a-zA-Z][a-zA-Z0-9]*)/gi matches at position i of s
validatorTagAt(s, i) ==
  /\ s[i] = "<"
  /\ \E n \in {IF i + 1 <= Len(s) /\ s[i + 1] = "/" THEN i + 2 ELSE i + 1} :
       n <= Len(s) /\ s[n] \in LetterSet

\* match[1].toLowerCase() of the match at position i
validatorTagName(s, i) ==
  CHOOSE name \in
    { toLowerCase(Slice(s, n, RunEnd(s, n, AlnumSet) - 1)) :
        n \in {IF s[i + 1] = "/" THEN i + 2 ELSE i + 1} } : TRUE

RECURSIVE tagIssues(_, _)
\* the issues of the loop over html.matchAll(...), from position i on
tagIssues(s, i) ==
  IF i > Len(s) THEN <<>>
  ELSE IF validatorTagAt(s, i) /\ validatorTagName(s, i) \notin ALLOWED_TAGS
       THEN << <<"Disallowed tag: <", validatorTagName(s, i), ">">> >> \o tagIssues(s, i + 1)
       ELSE tagIssues(s, i + 1)

\* pattern.test(s) of a pattern of the sanitizer's kinds
found(s, pat) == NextMatch(s, 1, pat) # 0

\* { valid: issues.length === 0, issues }
validationResult(issues) == [valid |-> Len(issues) = 0, issues |-> issues]

\* validateHTML(html)
validateHTML(html) ==
  IF ~Truthy(html) \/ html.type # "string" THEN Return(validationResult(<<>>))
  ELSE Return(validationResult(
         tagIssues(html.str, 1)
         \o (IF found(html.str, PLit(JAVASCRIPT_SCHEME))
             THEN << <<"Contains javascript: URL">> >> ELSE <<>>)
         \o (IF found(html.str, PEvent)
             THEN << <<"Contains event handler">> >> ELSE <<>>)
         \o (IF found(html.str, PLit(<<"<","s","c","r","i","p","t">>))
             THEN << <<"Contains script tag">> >> ELSE <<>>)))

(***************************************************************************)
(* Compliance service: rule tables.                                        *)
(***************************************************************************)
\* a pattern /\b(alt1|alt2|...)\b/i: the alternatives are the literals the
\* source pattern can match (an optional character written out)
PWord(alts) == [kind |-> "word", alts |-> alts]

\* /!{2,}/
PBangs == [kind |-> "bangs", alts |-> {}]

\* /first.*second/i (second empty: /first/i)
PThen(first, second) == [kind |-> "then", first |-> first, second |-> second]

PROHIBITED_KEYWORDS ==
  <<
     \* /\bguarantee[ds]?\b/i
     [keyword |-> "guarantee",
      pattern |-> PWord({ <<"g","u","a","r","a","n","t","e","e">>,
                          <<"g","u","a","r","a","n","t","e","e","d">>,
                          <<"g","u","a","r","a","n","t","e","e","s">> })],
     \* /\bnever\b/i
     [keyword |-> "never",
      pattern |-> PWord({ <<"n","e","v","e","r">> })],
     \* /\balways\b/i
     [keyword |-> "always",
      pattern |-> PWord({ <<"a","l","w","a","y","s">> })],
     \* /\brequired by law\b/i
     [keyword |-> "required by law",
      pattern |-> PWord({ <<"r","e","q","u","i","r","e","d"," ","b","y"," ",
                            "l","a","w">> })],
     \* /\bmandatory\b/i
     [keyword |-> "mandatory",
      pattern |-> PWord({ <<"m","a","n","d","a","t","o","r","y">> })],
     \* /\bbest\b/i
     [keyword |-> "best",
      pattern |-> PWord({ <<"b","e","s","t">> })],
     \* /\bultimate\b/i
     [keyword |-> "ultimate",
      pattern |-> PWord({ <<"u","l","t","i","m","a","t","e">> })],
     \* /\bact now\b/i
     [keyword |-> "act now",
      pattern |-> PWord({ <<"a","c","t"," ","n","o","w">> })],
     \* /\blimited time\b/i
     [keyword |-> "limited time",
      pattern |-> PWord({ <<"l","i","m","i","t","e","d"," ","t","i","m",
                            "e">> })],
     \* /\bdon'?t miss\b/i
     [keyword |-> "don't miss",
      pattern |-> PWord({ <<"d","o","n","'","t"," ","m","i","s","s">>,
                          <<"d","o","n","t"," ","m","i","s","s">> })] >>

MANIPULATIVE_PATTERNS ==
  <<
     [pattern |-> PBangs,
      message |-> "Multiple exclamation points may appear unprofessional"],
     \* /\bwill save you thousands\b/i
     [pattern |-> PWord({ <<"w","i","l","l"," ","s","a","v","e"," ","y","o",
                            "u"," ","t","h","o","u","s","a","n","d","s">> }),
      message |-> "Unverified savings claims"],
     \* /\bbankrupt\b/i
     [pattern |-> PWord({ <<"b","a","n","k","r","u","p","t">> }),
      message |-> "Fear-based language detected"],
     \* /\bdevastating\b/i
     [pattern |-> PWord({ <<"d","e","v","a","s","t","a","t","i","n","g">> }),
      message |-> "Fear-based language detected"],
     \* /\byou need this\b/i
     [pattern |-> PWord({ <<"y","o","u"," ","n","e","e","d"," ","t","h","i",
                            "s">> }),
      message |-> "Pressure tactics detected"],
     \* /\beveryone who says no regrets\b/i
     [pattern |-> PWord({ <<"e","v","e","r","y","o","n","e"," ","w","h","o",
                            " ","s","a","y","s"," ","n","o"," ","r","e","g",
                            "r","e","t","s">> }),
      message |-> "Pressure tactics detected"] >>

STANDARD_DISCLAIMER ==
  <<"T","h","i","s"," ","c","o","v","e","r","a","g","e"," ","h","a","s"," ",
    "l","i","m","i","t","a","t","i","o","n","s"," ","a","n","d"," ","e","x",
    "c","l","u","s","i","o","n","s","."," ","P","l","e","a","s","e"," ","r",
    "e","v","i","e","w"," ","t","h","e"," ","f","u","l","l"," ","c","o","n",
    "t","r","a","c","t"," ","t","e","r","m","s"," ","f","o","r"," ","c","o",
    "m","p","l","e","t","e"," ","d","e","t","a","i","l","s"," ","o","n"," ",
    "c","o","v","e","r","e","d"," ","c","o","m","p","o","n","e","n","t","s",
    ","," ","s","e","r","v","i","c","e"," ","r","e","q","u","i","r","e","m",
    "e","n","t","s",","," ","a","n","d"," ","e","x","c","l","u","s","i","o",
    "n","s",".">>

DISCLAIMER_INDICATORS ==
  <<
     \* /limitations and exclusions/i
     PThen(<<"l","i","m","i","t","a","t","i","o","n","s"," ","a","n","d",
             " ","e","x","c","l","u","s","i","o","n","s">>,
           <<>>),
     \* /please review.*contract/i
     PThen(<<"p","l","e","a","s","e"," ","r","e","v","i","e","w">>,
           <<"c","o","n","t","r","a","c","t">>),
     \* /see contract for.*details/i
     PThen(<<"s","e","e"," ","c","o","n","t","r","a","c","t"," ","f","o",
             "r">>,
           <<"d","e","t","a","i","l","s">>),
     \* /terms and conditions apply/i
     PThen(<<"t","e","r","m","s"," ","a","n","d"," ","c","o","n","d","i",
             "t","i","o","n","s"," ","a","p","p","l","y">>,
           <<>>),
     \* /coverage.*limitations/i
     PThen(<<"c","o","v","e","r","a","g","e">>,
           <<"l","i","m","i","t","a","t","i","o","n","s">>),
     \* /exclusions apply/i
     PThen(<<"e","x","c","l","u","s","i","o","n","s"," ","a","p","p","l",
             "y">>,
           <<>>) >>

(***************************************************************************)
(* Compliance service: matching.                                           *)
(***************************************************************************)
\* patterns without \b: a keyword matches anywhere
WordBoundary_Anywhere(s, i) == TRUE

\* \b before position i (1..Len(s)+1): exactly one neighbour is a word character
WordBoundary(s, i) ==
  LET before == i > 1 /\ i - 1 <= Len(s) /\ s[i - 1] \in WordSet
      after  == i >= 1 /\ i <= Len(s) /\ s[i] \in WordSet
  IN  before # after

\* the characters "." can match: all but the line terminators
NoLineBreak(s, i, j) == \A k \in i..j : s[k] \notin {"\n", "\r"}

\* the keyword patterns without the "i" flag
test_CaseSensitive(pat, s) ==
  CASE pat.kind = "word" ->
         \E alt \in pat.alts : \E i \in 1..Len(s) :
           /\ LitAt(s, i, alt)
           /\ WordBoundary(s, i)
           /\ WordBoundary(s, i + Len(alt))
    [] pat.kind = "bangs" -> \E i \in 1..Len(s) : LitAt(s, i, <<"!", "!">>)
    [] pat.kind = "then" ->
         \E i \in 1..Len(s) :
           /\ LitAtCI(s, i, pat.first)
           /\ \E j \in (i + Len(pat.first))..(Len(s) + 1) :
                /\ LitAtCI(s, j, pat.second)
                /\ NoLineBreak(s, i + Len(pat.first), j - 1)

\* RegExp.prototype.test for the patterns of the rule tables (none has the g
\* flag, so test keeps no position between calls)
test(pat, s) ==
  CASE pat.kind = "word" ->
         \E alt \in pat.alts : \E i \in 1..Len(s) :
           /\ LitAtCI(s, i, alt)
           /\ WordBoundary(s, i)
           /\ WordBoundary(s, i + Len(alt))
    [] pat.kind = "bangs" -> \E i \in 1..Len(s) : LitAt(s, i, <<"!", "!">>)
    [] pat.kind = "then" ->
         \E i \in 1..Len(s) :
           /\ LitAtCI(s, i, pat.first)
           /\ \E j \in (i + Len(pat.first))..(Len(s) + 1) :
                /\ LitAtCI(s, j, pat.second)
                /\ NoLineBreak(s, i + Len(pat.first), j - 1)

\* text.replace(/<[^>]*>/g, ' ')
stripTags(s) == ReplaceAll(s, POpen(<<"<">>), <<" ">>)

\* the warning of a prohibited keyword:
\* `Contains "${keyword}" - this language may require legal review`
keywordWarning(keyword) ==
  <<"Contains \"", keyword, "\" - this language may require legal review">>

RECURSIVE keywordWarnings(_, _)
\* the first loop of checkCompliance, from rule k on
keywordWarnings(plainText, k) ==
  IF k > Len(PROHIBITED_KEYWORDS) THEN <<>>
  ELSE (IF test(PROHIBITED_KEYWORDS[k].pattern, plainText)
        THEN <<keywordWarning(PROHIBITED_KEYWORDS[k].keyword)>> ELSE <<>>)
       \o keywordWarnings(plainText, k + 1)

\* Array.prototype.includes on the warnings
hasWarning(warnings, w) == \E n \in 1..Len(warnings) : warnings[n] = w

RECURSIVE manipulativeWarnings_NoDedup(_, _, _)
\* the second loop without the includes test
manipulativeWarnings_NoDedup(plainText, warnings, k) ==
  IF k > Len(MANIPULATIVE_PATTERNS) THEN warnings
  ELSE IF test(MANIPULATIVE_PATTERNS[k].pattern, plainText)
       THEN manipulativeWarnings_NoDedup(
              plainText, Append(warnings, <<MANIPULATIVE_PATTERNS[k].message>>), k + 1)
       ELSE manipulativeWarnings_NoDedup(plainText, warnings, k + 1)

RECURSIVE manipulativeWarnings(_, _, _)
\* the second loop of checkCompliance, from rule k on, given the warnings so far
manipulativeWarnings(plainText, warnings, k) ==
  IF k > Len(MANIPULATIVE_PATTERNS) THEN warnings
  ELSE LET message == <<MANIPULATIVE_PATTERNS[k].message>>
       IN  IF test(MANIPULATIVE_PATTERNS[k].pattern, plainText)
              /\ ~hasWarning(warnings, message)
           THEN manipulativeWarnings(plainText, Append(warnings, message), k + 1)
           ELSE manipulativeWarnings(plainText, warnings, k + 1)

\* `${v || ''}` of a template literal, for a value whose conversion to a
\* string does not throw
orEmpty(v) == IF Truthy(v) THEN v.str ELSE <<>>

checkCompliance(shortDescription, longDescription) ==
  IF \/ (Truthy(shortDescription) /\ shortDescription.type = "symbol")
     \/ (Truthy(longDescription) /\ longDescription.type = "symbol")
  THEN Throw
  ELSE LET combinedText == orEmpty(shortDescription) \o <<" ">> \o orEmpty(longDescription)
           plainText == stripTags(combinedText)
           warnings == manipulativeWarnings(plainText, keywordWarnings(plainText, 1), 1)
       IN  Return([hasIssues |-> Len(warnings) > 0, warnings |-> warnings])

\* hasDisclaimer with every in the place of some
hasDisclaimer_Every(text) ==
  IF ~Truthy(text) THEN Return(FALSE)
  ELSE IF text.type # "string" THEN Throw
  ELSE LET plainText == toLowerCase(stripTags(text.str))
       IN  Return(\A k \in 1..Len(DISCLAIMER_INDICATORS) :
                    test(DISCLAIMER_INDICATORS[k], plainText))

\* hasDisclaimer on the text as written, tags included
hasDisclaimer_NoStrip(text) ==
  IF ~Truthy(text) THEN Return(FALSE)
  ELSE IF text.type # "string" THEN Throw
  ELSE LET plainText == toLowerCase(text.str)
       IN  Return(\E k \in 1..Len(DISCLAIMER_INDICATORS) :
                    test(DISCLAIMER_INDICATORS[k], plainText))

hasDisclaimer(text) ==
  IF ~Truthy(text) THEN Return(FALSE)
  ELSE IF text.type # "string" THEN Throw   \* text.replace is not a function
  ELSE LET plainText == toLowerCase(stripTags(text.str))
       IN  Return(\E k \in 1..Len(DISCLAIMER_INDICATORS) :
                    test(DISCLAIMER_INDICATORS[k], plainText))

DISCLAIMER_OPEN ==
  <<"<","p",">","<","e","m"," ","s","t","y","l","e","=","\"","f","o","n",
    "t","-","s","i","z","e",":"," ","s","m","a","l","l","e","r","\"",">">>

DISCLAIMER_CLOSE == <<"<","/","e","m",">","<","/","p",">">>

\* `<p><em style="font-size: smaller">${STANDARD_DISCLAIMER}</em></p>`
disclaimerHTML == DISCLAIMER_OPEN \o STANDARD_DISCLAIMER \o DISCLAIMER_CLOSE

\* ensureDisclaimer with one line break before the appended block
ensureDisclaimer_OneLineBreak(longDescription) ==
  IF ~Truthy(longDescription) THEN Return(disclaimerHTML)
  ELSE LET has == hasDisclaimer(longDescription)
       IN  IF has.raised THEN Throw
           ELSE IF has.value THEN Return(longDescription.str)
           ELSE Return(longDescription.str \o <<"\n">> \o disclaimerHTML)

\* ensureDisclaimer without the test for a disclaimer that is already there
ensureDisclaimer_AlwaysAppend(longDescription) ==
  IF ~Truthy(longDescription) THEN Return(disclaimerHTML)
  ELSE IF longDescription.type # "string" THEN Throw
  ELSE Return(longDescription.str \o <<"\n", "\n">> \o disclaimerHTML)

ensureDisclaimer(longDescription) ==
  IF ~Truthy(longDescription) THEN Return(disclaimerHTML)
  ELSE LET has == hasDisclaimer(longDescription)
       IN  IF has.raised THEN Throw
           ELSE IF has.value THEN Return(longDescription.str)
           ELSE Return(longDescription.str \o <<"\n", "\n">> \o disclaimerHTML)

\* [.!?]
SentenceMarks == {".", "!", "?"}

\* shortDescription.split(/[.!?]+/).filter(s => s.trim()).length: the runs of
\* characters between the marks that are not white space only
sentenceCount(s) ==
  Cardinality({ i \in 1..Len(s) :
    /\ s[i] \notin SentenceMarks
    /\ (i = 1 \/ s[i - 1] \in SentenceMarks)
    /\ \E stop \in {FindChar(s, i, SentenceMarks)} :
         \E j \in i..(IF stop = 0 THEN Len(s) ELSE stop - 1) : s[j] \notin SpaceSet })

\* /<[^>]+>/.test(s)
hasMarkup(s) ==
  \E i \in 1..(Len(s) - 2) :
    s[i] = "<" /\ s[i + 1] # ">" /\ FindChar(s, i + 2, {">"}) # 0

SENTENCES_WARNING == <<"Short description exceeds 3 sentences">>

PLAIN_TEXT_ERROR == <<"Short description should be plain text only">>

DISCLAIMER_WARNING == <<"Long description should include a disclaimer">>

\* the result with valid false as soon as there is a warning
publishResult_NoWarnings(errors, warnings) ==
  [valid |-> Len(errors) = 0 /\ Len(warnings) = 0, errors |-> errors, warnings |-> warnings]

\* { valid: errors.length === 0, errors, warnings }
publishResult(errors, warnings) ==
  [valid |-> Len(errors) = 0, errors |-> errors, warnings |-> warnings]

\* validateForPublishing(shortDescription, longDescription): split is not a
\* function of a truthy value that is not a string, and hasDisclaimer throws
\* on one
validateForPublishing(shortDescription, longDescription) ==
  IF Truthy(shortDescription) /\ shortDescription.type # "string" THEN Throw
  ELSE IF Truthy(longDescription) /\ hasDisclaimer(longDescription).raised THEN Throw
  ELSE IF checkCompliance(shortDescription, longDescription).raised THEN Throw
  ELSE Return(publishResult(
         IF Truthy(shortDescription) /\ hasMarkup(shortDescription.str)
         THEN <<PLAIN_TEXT_ERROR>> ELSE <<>>,
         (IF Truthy(shortDescription) /\ sentenceCount(shortDescription.str) > 3
          THEN <<SENTENCES_WARNING>> ELSE <<>>)
         \o (IF Truthy(longDescription) /\ ~hasDisclaimer(longDescription).value
             THEN <<DISCLAIMER_WARNING>> ELSE <<>>)
         \o checkCompliance(shortDescription, longDescription).value.warnings))

(***************************************************************************)
(* The rule sets as objects shared by all requests.  A pattern is a RegExp *)
(* object with a lastIndex; the functions below are the ones above with    *)
(* the rule sets they read and write passed through.                       *)
(***************************************************************************)
\* lastIndex 0 for every pattern of a list
ZeroIndexes(patterns) == [k \in DOMAIN patterns |-> 0]

\* the rule sets after the modules are loaded
LoadedRules ==
  [allowedTags |-> ALLOWED_TAGS,
   dangerous |-> ZeroIndexes(DANGEROUS_PATTERNS),
   keywords |-> ZeroIndexes(PROHIBITED_KEYWORDS),
   manipulative |-> ZeroIndexes(MANIPULATIVE_PATTERNS),
   indicators |-> ZeroIndexes(DISCLAIMER_INDICATORS)]

\* test of a keyword pattern that has the g flag: the search starts at
\* lastIndex, a match moves lastIndex to its end and a failure resets it
regexTest_Global(pat, s, lastIndex) ==
  IF pat.kind # "word" THEN [matched |-> test(pat, s), lastIndex |-> lastIndex]
  ELSE LET hits == { i \in (lastIndex + 1)..Len(s) :
                       \E alt \in pat.alts :
                         /\ LitAtCI(s, i, alt)
                         /\ WordBoundary(s, i)
                         /\ WordBoundary(s, i + Len(alt)) }
       IN  IF hits = {} THEN [matched |-> FALSE, lastIndex |-> 0]
           ELSE [matched |-> TRUE,
                 lastIndex |-> CHOOSE e \in
                   { i - 1 + Len(alt) : <<i, alt>> \in
                       { <<i, alt>> \in hits \X pat.alts :
                           /\ \A j \in hits : i <= j
                           /\ LitAtCI(s, i, alt)
                           /\ WordBoundary(s, i + Len(alt)) } } : TRUE]

\* pattern.test(s) of a pattern without the g and y flags, as all patterns of
\* the compliance service are: the search starts at 0 and lastIndex is left
\* as it is
regexTest(pat, s, lastIndex) == [matched |-> test(pat, s), lastIndex |-> lastIndex]

\* the result of a call and the rule sets after it
Outcome(result, rules) == [result |-> result, rules |-> rules]

\* sanitizeHTML: String.prototype.replace with a g pattern sets lastIndex to 0
\* before its first search and leaves it 0 after its last; ALLOWED_TAGS is
\* only asked with has
sanitizeHTMLWith(html, rules) ==
  Outcome(sanitizeHTML(html),
          IF ~Truthy(html) \/ html.type # "string" THEN rules
          ELSE [rules EXCEPT !.dangerous = ZeroIndexes(DANGEROUS_PATTERNS)])

RECURSIVE scanKeywords(_, _, _, _)
\* the first loop of checkCompliance from rule k on
scanKeywords(plainText, k, warnings, lastIndex) ==
  IF k > Len(PROHIBITED_KEYWORDS) THEN [warnings |-> warnings, lastIndex |-> lastIndex]
  ELSE CHOOSE next \in
         { scanKeywords(plainText, k + 1,
                        IF r.matched
                        THEN Append(warnings, keywordWarning(PROHIBITED_KEYWORDS[k].keyword))
                        ELSE warnings,
                        [lastIndex EXCEPT ![k] = r.lastIndex]) :
             r \in {regexTest(PROHIBITED_KEYWORDS[k].pattern, plainText, lastIndex[k])} } : TRUE

RECURSIVE scanManipulative(_, _, _, _)
\* the second loop of checkCompliance from rule k on
scanManipulative(plainText, k, warnings, lastIndex) ==
  IF k > Len(MANIPULATIVE_PATTERNS) THEN [warnings |-> warnings, lastIndex |-> lastIndex]
  ELSE CHOOSE next \in
         { scanManipulative(plainText, k + 1,
                            IF r.matched /\ ~hasWarning(warnings, <<MANIPULATIVE_PATTERNS[k].message>>)
                            THEN Append(warnings, <<MANIPULATIVE_PATTERNS[k].message>>)
                            ELSE warnings,
                            [lastIndex EXCEPT ![k] = r.lastIndex]) :
             r \in {regexTest(MANIPULATIVE_PATTERNS[k].pattern, plainText, lastIndex[k])} } : TRUE

\* checkCompliance on the shared rule sets
checkComplianceWith(shortDescription, longDescription, rules) ==
  IF \/ (Truthy(shortDescription) /\ shortDescription.type = "symbol")
     \/ (Truthy(longDescription) /\ longDescription.type = "symbol")
  THEN Outcome(Throw, rules)
  ELSE CHOOSE o \in
         { Outcome(Return([hasIssues |-> Len(m.warnings) > 0, warnings |-> m.warnings]),
                   [rules EXCEPT !.keywords = kw.lastIndex, !.manipulative = m.lastIndex]) :
             <<kw, m>> \in
               { <<kw, scanManipulative(plainText, 1, kw.warnings, rules.manipulative)>> :
                   <<plainText, kw>> \in
                     { <<plainText, scanKeywords(plainText, 1, <<>>, rules.keywords)>> :
                         plainText \in {stripTags(orEmpty(shortDescription) \o <<" ">>
                                                  \o orEmpty(longDescription))} } } } : TRUE

RECURSIVE someIndicator(_, _, _)
\* DISCLAIMER_INDICATORS.some(pattern => pattern.test(plainText)) from k on:
\* it stops at the first pattern that matches
someIndicator(plainText, k, lastIndex) ==
  IF k > Len(DISCLAIMER_INDICATORS) THEN [matched |-> FALSE, lastIndex |-> lastIndex]
  ELSE CHOOSE next \in
         { IF r.matched THEN [matched |-> TRUE, lastIndex |-> [lastIndex EXCEPT ![k] = r.lastIndex]]
           ELSE someIndicator(plainText, k + 1, [lastIndex EXCEPT ![k] = r.lastIndex]) :
             r \in {regexTest(DISCLAIMER_INDICATORS[k], plainText, lastIndex[k])} } : TRUE

\* hasDisclaimer on the shared rule sets
hasDisclaimerWith(text, rules) ==
  IF ~Truthy(text) THEN Outcome(Return(FALSE), rules)
  ELSE IF text.type # "string" THEN Outcome(Throw, rules)
  ELSE CHOOSE o \in
         { Outcome(Return(some.matched), [rules EXCEPT !.indicators = some.lastIndex]) :
             some \in {someIndicator(toLowerCase(stripTags(text.str)), 1, rules.indicators)} } : TRUE

\* ensureDisclaimer on the shared rule sets
ensureDisclaimerWith(longDescription, rules) ==
  IF ~Truthy(longDescription) THEN Outcome(Return(disclaimerHTML), rules)
  ELSE CHOOSE o \in
         { Outcome(IF has.result.raised THEN Throw
                   ELSE IF has.result.value THEN Return(longDescription.str)
                   ELSE Return(longDescription.str \o <<"\n", "\n">> \o disclaimerHTML),
                   has.rules) :
             has \in {hasDisclaimerWith(longDescription, rules)} } : TRUE

\* a call of one of the four functions
CoreCall(name, first, second) == [fn |-> name, first |-> first, second |-> second]

\* the call made on the shared rule sets
perform(call, rules) ==
  CASE call.fn = "sanitizeHTML" -> sanitizeHTMLWith(call.first, rules)
    [] call.fn = "checkCompliance" -> checkComplianceWith(call.first, call.second, rules)
    [] call.fn = "hasDisclaimer" -> hasDisclaimerWith(call.first, rules)
    [] call.fn = "ensureDisclaimer" -> ensureDisclaimerWith(call.first, rules)

\* the call made on its own, on rule sets as they are after loading
performAlone(call) ==
  CASE call.fn = "sanitizeHTML" -> sanitizeHTML(call.first)
    [] call.fn = "checkCompliance" -> checkCompliance(call.first, call.second)
    [] call.fn = "hasDisclaimer" -> hasDisclaimer(call.first)
    [] call.fn = "ensureDisclaimer" -> ensureDisclaimer(call.first)

(***************************************************************************)
(* Enhancement service (services/enhancer): what the server gets back from *)
(* the Cloudflare worker or from the OpenAI client is chosen by the        *)
(* environment; the code around the network calls is modelled as written.  *)
(***************************************************************************)
\* the limit of a short description, in characters
SHORT_LIMIT == 200

ELLIPSIS == <<".", ".", ".">>

\* String.prototype.substring(0, n)
substring(s, n) == IF Len(s) <= n THEN s ELSE SubSeq(s, 1, n)

\* `v || ''` for an operand that is kept as a value
orEmptyString(v) == IF Truthy(v) THEN v ELSE JsString(<<>>)

\* an answer of the chat completion: it arrived or the call failed
AiAnswer(content) == [ok |-> TRUE, content |-> content]

AiFailure == [ok |-> FALSE, content |-> <<>>]

\* enhanceShortDescription(text) for a string, given the completion's answer
enhanceShortDescription(text, ai) ==
  IF ai.ok
  THEN LET result == trim(ai.content)
       IN  IF Len(result) > SHORT_LIMIT
           THEN substring(result, SHORT_LIMIT - Len(ELLIPSIS)) \o ELLIPSIS
           ELSE result
  ELSE substring(text, SHORT_LIMIT)

\* enhanceLongDescription(text) for a string, given the completion's answer
enhanceLongDescription(text, ai) ==
  IF ai.ok THEN trim(ai.content) ELSE text

\* `v && v.trim()` as a condition: it throws for a truthy value without trim
hasText(v) ==
  IF ~Truthy(v) THEN Return(FALSE)
  ELSE IF v.type # "string" THEN Throw
  ELSE Return(trim(v.str) # <<>>)

\* the local OpenAI branch of enhanceDescriptions
enhanceLocally(shortDescription, longDescription, hasShort, hasLong, env) ==
  CASE hasShort /\ hasLong ->
         [shortDescription |-> JsString(enhanceShortDescription(shortDescription.str, env.aiShort)),
          longDescription |-> JsString(enhanceLongDescription(longDescription.str, env.aiLong))]
    [] hasShort /\ ~hasLong ->
         [shortDescription |-> JsString(enhanceShortDescription(shortDescription.str, env.aiShort)),
          longDescription |-> JsString(enhanceLongDescription(shortDescription.str, env.aiLong))]
    [] ~hasShort /\ hasLong ->
         [shortDescription |-> JsString(enhanceShortDescription(longDescription.str, env.aiShort)),
          longDescription |-> JsString(enhanceLongDescription(longDescription.str, env.aiLong))]
    [] OTHER ->
         [shortDescription |-> JsString(<<>>), longDescription |-> JsString(<<>>)]

\* enhanceDescriptions(shortDescription, longDescription): env says whether
\* CLOUDFLARE_WORKER_URL and OPENAI_API_KEY are set, whether the worker
\* answered, with which JSON, and what the completions answered
enhanceDescriptions(shortDescription, longDescription, env) ==
  LET hasShort == hasText(shortDescription)
      hasLong == hasText(longDescription)
  IN  IF hasShort.raised \/ hasLong.raised THEN Throw
      ELSE IF env.workerUrl /\ env.workerOk
      THEN Return([shortDescription |-> orEmptyString(env.workerResult.shortDescription),
                   longDescription |-> orEmptyString(env.workerResult.longDescription)])
      ELSE IF env.workerUrl /\ ~env.apiKey THEN Throw
      ELSE Return(enhanceLocally(shortDescription, longDescription,
                                 hasShort.value, hasLong.value, env))

(***************************************************************************)
(* The confidence score of services/pdf-extractor.js.  A JavaScript number *)
(* of the score is an IEEE 754 double; all the doubles the score goes      *)
(* through are whole multiples of 2^-57, so a double is kept as that       *)
(* multiple, in two limbs (hi * LIMB + lo), and sums are rounded to the    *)
(* 53-bit significand as the hardware rounds them (to nearest, ties to     *)
(* even).                                                                  *)
(***************************************************************************)
\* 2^29: the number of units of one hi
LIMB == 536870912

Double(hi, lo) == [hi |-> hi, lo |-> lo]

\* a whole number of units, carried into the limbs
Carry(hi, lo) ==
  IF lo >= LIMB THEN Double(hi + 1, lo - LIMB)
  ELSE IF lo < 0 THEN Double(hi - 1, lo + LIMB)
  ELSE Double(hi, lo)

\* the distance of neighbouring doubles at x, in units: 2^-52 from 1 on,
\* 2^-53 from 0.5, 2^-54 from 0.25, 2^-55 from 0.125
Ulp(x) ==
  IF x.hi >= 268435456 THEN 32
  ELSE IF x.hi >= 134217728 THEN 16
  ELSE IF x.hi >= 67108864 THEN 8
  ELSE IF x.hi >= 33554432 THEN 4
  ELSE 1

\* an exact sum rounded to a double: to the nearest, ties to the even one
RoundToDouble(x) ==
  LET ulp == Ulp(x)
      rest == x.lo % ulp
      down == x.lo - rest
      up == down + ulp
  IN  IF rest * 2 < ulp THEN Carry(x.hi, down)
      ELSE IF rest * 2 > ulp THEN Carry(x.hi, up)
      ELSE IF (down \div ulp) % 2 = 0 THEN Carry(x.hi, down)
      ELSE Carry(x.hi, up)

\* a + b of two doubles
Plus(a, b) == RoundToDouble(Carry(a.hi + b.hi, a.lo + b.lo))

\* a - b of two doubles with a >= b (the score never goes below 0.25)
Minus(a, b) == RoundToDouble(Carry(a.hi - b.hi, a.lo - b.lo))

\* a < b
LessThan(a, b) == a.hi < b.hi \/ (a.hi = b.hi /\ a.lo < b.lo)

\* the literals of the score as doubles
D_0 == Double(0, 0)

D_0_05 == Double(13421772, 429496730)

D_0_1 == Double(26843545, 322122548)

D_0_15 == Double(40265318, 214748364)

D_0_5 == Double(134217728, 0)

D_0_8 == Double(214748364, 429496736)

D_1 == Double(268435456, 0)

\* Math.max(a, b) and Math.min(a, b)
MathMax(a, b) == IF LessThan(a, b) THEN b ELSE a

MathMin(a, b) == IF LessThan(b, a) THEN b ELSE a

\* a raw text is written as runs, <<chunk, times>>: the chunk repeated
Chars(run) ==
  [k \in 1..(Len(run[1]) * run[2]) |-> run[1][((k - 1) % Len(run[1])) + 1]]

RECURSIVE Expand(_)
\* the string of a raw text
Expand(runs) ==
  IF runs = <<>> THEN <<>>
  ELSE Expand(SubSeq(runs, 1, Len(runs) - 1)) \o Chars(runs[Len(runs)])

\* the characters [^\w\s.,;:'"!?()-] does not match
CleanSet ==
  WordSet \cup SpaceSet \cup {".", ",", ";", ":", "'", "\"", "!", "?", "(", ")", "-"}

\* (rawText.match(/[^\w\s.,;:'"!?()-]/g) || []).length
garbageCount(s) == Cardinality({k \in 1..Len(s) : s[k] \notin CleanSet})

\* /[A-Z][^.]+\./g.test(rawText) on a fresh pattern: a capital, at least one
\* character that is not a full stop, and a full stop somewhere after it
hasProperSentences(s) ==
  \E j \in 1..Len(s) :
    /\ s[j] = "."
    /\ \A d \in (j + 1)..Len(s) : s[d] # "."
    /\ \E k \in 1..(j - 2) : s[k] \in UpperSet /\ s[k + 1] # "."

\* an array of an analysis, and a field the analysis does not have
ListOf(items) == [type |-> "array", items |-> items]

NoList == [type |-> "undefined", items |-> <<>>]

\* score = amount where the code has score += amount
addIf_Assign(condition, score, amount) == IF condition THEN amount ELSE score

\* score += amount when the condition holds
addIf(condition, score, amount) == IF condition THEN Plus(score, amount) ELSE score

\* score -= amount when the condition holds
subtractIf(condition, score, amount) == IF condition THEN Minus(score, amount) ELSE score

\* the score before clamping, from the length, the sentence test and the
\* garbage count of rawText and from the analysis; garbageRatio > 0.1 is
\* garbage * 10 > length (for length 0 the ratio is NaN, and NaN > 0.1 is false)
scoreOf(length, sentences, garbage, analysis) ==
  LET s1 == addIf(length > 1000, D_0_5, D_0_1)
      s2 == addIf(length > 5000, s1, D_0_1)
      s3 == addIf(Truthy(analysis.productName), s2, D_0_1)
      s4 == addIf(Truthy(analysis.productType), s3, D_0_05)
      s5 == addIf(Len(analysis.coverage) >= 3, s4, D_0_1)
      s6 == addIf(Len(analysis.coverage) >= 5, s5, D_0_05)
      s7 == addIf(Truthy(analysis.benefits) /\ Len(analysis.benefits.items) > 0, s6, D_0_05)
      s8 == addIf(Truthy(analysis.limitations) /\ Len(analysis.limitations.items) > 0, s7, D_0_05)
      s9 == addIf(Truthy(analysis.disclaimers) /\ Len(analysis.disclaimers.items) > 0, s8, D_0_05)
      s10 == addIf(sentences, s9, D_0_05)
      s11 == subtractIf(length < 500, s10, D_0_1)
  IN  subtractIf(garbage * 10 > length, s11, D_0_15)

\* the score of a string before clamping
scoreOfString(s, analysis) ==
  scoreOf(Len(s), hasProperSentences(s), garbageCount(s), analysis)

\* the score without Math.min
calculateConfidence_NoUpperClamp(rawText, analysis) ==
  CHOOSE r \in {MathMax(D_0, scoreOfString(s, analysis)) : s \in {Expand(rawText)}} : TRUE

\* calculateConfidence(rawText, analysis)
calculateConfidence(rawText, analysis) ==
  CHOOSE r \in {MathMax(D_0, MathMin(D_1, scoreOfString(s, analysis))) :
                  s \in {Expand(rawText)}} : TRUE

\* the least length of the trimmed text of a PDF that is processed
MIN_TEXT_LENGTH == 50

\* data.text.trim().length
trimmedLength(s) ==
  IF \A k \in 1..Len(s) : s[k] \in SpaceSet THEN 0
  ELSE (CHOOSE k \in 1..Len(s) :
          s[k] \notin SpaceSet /\ \A j \in (k + 1)..Len(s) : s[j] \in SpaceSet)
       - (CHOOSE k \in 1..Len(s) :
            s[k] \notin SpaceSet /\ \A j \in 1..(k - 1) : s[j] \in SpaceSet) + 1

\* what extractFromPDF returns without a result
ExtractionFailure ==
  [success |-> FALSE, shortDescription |-> JsUndefined,
   longDescription |-> JsUndefined, confidence |-> D_0, sections |-> "none"]

\* extractFromPDF(pdfBuffer): parsed says whether pdfParse returned, text is
\* data.text, analysis is what analyzeText made of it and generated is what
\* generateDescriptionsWithAI returned (or its failure)
extractFromPDF(parsed, text, analysis, generated) ==
  IF ~parsed THEN ExtractionFailure
  ELSE IF text = <<>> \/ (\E s \in {Expand(text)} : trimmedLength(s) < MIN_TEXT_LENGTH)
  THEN ExtractionFailure
  ELSE IF ~generated.ok THEN ExtractionFailure
  ELSE [success |-> TRUE,
        shortDescription |-> generated.shortDescription,
        longDescription |-> generated.longDescription,
        confidence |-> calculateConfidence(text, analysis),
        sections |-> analysis]

(***************************************************************************)
(* The server: POST /api/enhance and POST /api/extract-pdf.                *)
(***************************************************************************)
\* the confidence below which an extraction is flagged: the double 0.8
LOW_CONFIDENCE == D_0_8

\* res.status(status).json({ error, code })
ErrorResponse(status, code) == [status |-> status, code |-> code]

\* the merge without the Set: the two lists one after the other
unique_KeepAll(list) == list

RECURSIVE unique(_)
\* [...new Set(list)]: the first occurrence of every element, in order
unique(list) ==
  IF list = <<>> THEN <<>>
  ELSE LET front == unique(SubSeq(list, 1, Len(list) - 1))
           last == list[Len(list)]
       IN  IF hasWarning(front, last) THEN front ELSE Append(front, last)

\* the values of the enhance handler, complianceResult merged from the two scans
enhanceMerged(sanitizedLong, longWithDisclaimer, inputCompliance, outputCompliance) ==
  [sanitizedLong |-> sanitizedLong,
   longWithDisclaimer |-> longWithDisclaimer,
   inputCompliance |-> inputCompliance,
   outputCompliance |-> outputCompliance,
   complianceResult |->
     [hasIssues |-> inputCompliance.hasIssues \/ outputCompliance.hasIssues,
      warnings |-> unique(inputCompliance.warnings \o outputCompliance.warnings)]]

\* the enhance handler from longWithDisclaimer on: the two scans
enhanceScans(shortDescription, longDescription, enhanced, sanitizedLong, longWithDisclaimer) ==
  enhanceMerged(sanitizedLong, longWithDisclaimer,
                checkCompliance(shortDescription, longDescription).value,
                checkCompliance(enhanced.shortDescription,
                                JsString(longWithDisclaimer)).value)

\* the enhance handler from sanitizedLong on
enhanceDisclaimed(shortDescription, longDescription, enhanced, sanitizedLong) ==
  enhanceScans(shortDescription, longDescription, enhanced, sanitizedLong,
               ensureDisclaimer(JsString(sanitizedLong)).value)

\* the stages with the disclaimer manager before the sanitizer
enhanceStages_DisclaimerFirst(shortDescription, longDescription, enhanced) ==
  enhanceScans(shortDescription, longDescription, enhanced, <<>>,
               sanitizeHTML(JsString(ensureDisclaimer(
                 IF enhanced.longDescription.type = "string"
                 THEN enhanced.longDescription ELSE JsString(<<>>)).value)).value)

\* the values the enhance handler computes from the request body and from
\* what enhanceDescriptions returned
enhanceStages(shortDescription, longDescription, enhanced) ==
  enhanceDisclaimed(shortDescription, longDescription, enhanced,
                    sanitizeHTML(enhanced.longDescription).value)

\* res.json({ ... }) of the enhance handler
enhanceJson(enhanced, stages) ==
  [status |-> 200, code |-> "OK",
   shortDescription |-> enhanced.shortDescription,
   longDescription |-> stages.longWithDisclaimer,
   complianceWarnings |-> stages.complianceResult.warnings,
   hasComplianceIssues |-> stages.complianceResult.hasIssues]

\* the enhance handler after enhanceDescriptions returned or threw
enhanceRespond(shortDescription, longDescription, enhanced) ==
  IF enhanced.raised THEN ErrorResponse(500, "SERVICE_ERROR")
  ELSE enhanceJson(enhanced.value,
                   enhanceStages(shortDescription, longDescription, enhanced.value))

\* app.post('/api/enhance'): the response to a request body
apiEnhance(shortDescription, longDescription, env) ==
  IF ~Truthy(shortDescription) /\ ~Truthy(longDescription)
  THEN ErrorResponse(400, "EMPTY_INPUT")
  ELSE enhanceRespond(shortDescription, longDescription,
                      enhanceDescriptions(shortDescription, longDescription, env))

\* what a run of the enhance handler did: the services it called, in order,
\* and the responses it wrote
HandlerRun(calls, responses) == [calls |-> calls, responses |-> responses]

\* the enhance handler from the await of enhanceDescriptions on: the catch
\* block answers when it threw, otherwise the four calls follow
enhanceRan(shortDescription, longDescription, enhanced) ==
  HandlerRun(IF enhanced.raised THEN <<"enhanceDescriptions">>
             ELSE <<"enhanceDescriptions", "sanitizeHTML", "ensureDisclaimer",
                    "checkCompliance", "checkCompliance">>,
             <<enhanceRespond(shortDescription, longDescription, enhanced)>>)

\* the enhance handler with the validation's response not returned: the
\* handler goes on after it
enhanceRun_NoReturn(shortDescription, longDescription, env) ==
  IF ~Truthy(shortDescription) /\ ~Truthy(longDescription)
  THEN HandlerRun(<<"enhanceDescriptions">>,
                  <<ErrorResponse(400, "EMPTY_INPUT"),
                    enhanceRespond(shortDescription, longDescription,
                                   enhanceDescriptions(shortDescription, longDescription, env))>>)
  ELSE enhanceRan(shortDescription, longDescription,
                  enhanceDescriptions(shortDescription, longDescription, env))

\* app.post('/api/enhance'): the calls and the responses of a request
enhanceRun(shortDescription, longDescription, env) ==
  IF ~Truthy(shortDescription) /\ ~Truthy(longDescription)
  THEN HandlerRun(<<>>, <<ErrorResponse(400, "EMPTY_INPUT")>>)
  ELSE enhanceRan(shortDescription, longDescription,
                  enhanceDescriptions(shortDescription, longDescription, env))

\* the extract-pdf handler from longWithDisclaimer on
extractScan(extracted, sanitizedLong, longWithDisclaimer) ==
  [sanitizedLong |-> sanitizedLong,
   longWithDisclaimer |-> longWithDisclaimer,
   complianceResult |-> checkCompliance(extracted.shortDescription,
                                        JsString(longWithDisclaimer)).value]

\* the extract-pdf handler from sanitizedLong on
extractDisclaimed(extracted, sanitizedLong) ==
  extractScan(extracted, sanitizedLong, ensureDisclaimer(JsString(sanitizedLong)).value)

\* the values the extract-pdf handler computes from what extractFromPDF
\* returned: sanitizedLong, longWithDisclaimer and complianceResult
extractStages(extracted) ==
  extractDisclaimed(extracted, sanitizeHTML(extracted.longDescription).value)

\* res.json({ ... }) of the extract-pdf handler
extractJson(extracted, stages) ==
  [status |-> 200, code |-> "OK",
   shortDescription |-> extracted.shortDescription,
   longDescription |-> stages.longWithDisclaimer,
   confidence |-> extracted.confidence,
   lowConfidence |-> LessThan(extracted.confidence, LOW_CONFIDENCE),
   complianceWarnings |-> stages.complianceResult.warnings,
   hasComplianceIssues |-> stages.complianceResult.hasIssues,
   extractedSections |-> extracted.sections]

\* app.post('/api/extract-pdf'): the response, given what was uploaded
\* ("none", "pdf", "notPdf" or "tooLarge") and what extractFromPDF returned.
\* multer passes its errors to the error middleware, not to the handler.
apiExtractPdf(upload, extracted) ==
  IF upload = "tooLarge" THEN ErrorResponse(400, "FILE_TOO_LARGE")
  ELSE IF upload = "notPdf" THEN ErrorResponse(500, "INTERNAL_ERROR")
  ELSE IF upload = "none" THEN ErrorResponse(400, "NO_FILE")
  ELSE IF ~extracted.success THEN ErrorResponse(400, "EXTRACTION_FAILED")
  ELSE extractJson(extracted, extractStages(extracted))

(***************************************************************************)
(* The Cloudflare worker and the front end (public/app.js), as far as the  *)
(* long description goes, and the front end with its requests in flight.   *)
(* A long description that reaches the page is kept with the stages it     *)
(* went through since its origin; a short description is only ever written *)
(* as textContent.                                                         *)
(***************************************************************************)
\* a text and the stages it passed on its way
Html(text, path) == [text |-> text, path |-> path]

\* the literal '' of the front end
EmptyHtml == Html(<<>>, <<>>)

\* a Response with a JSON body: longDescription is a JavaScript value
JsonResponse(status, longDescription, path) ==
  [status |-> status, longDescription |-> longDescription, path |-> path]

\* handleEnhancement(data, env) of the worker: without its key, or when the
\* completion fails or is not the expected JSON, it answers 500; otherwise it
\* answers the parsed JSON of the completion as it is
handleEnhancement(workerEnv) ==
  IF ~workerEnv.apiKey THEN JsonResponse(500, JsUndefined, <<>>)
  ELSE IF ~workerEnv.aiOk THEN JsonResponse(500, JsUndefined, <<>>)
  ELSE JsonResponse(200, workerEnv.result.longDescription, <<"handleEnhancement">>)

\* an answer of the server's POST /api/enhance as the front end's fetch sees it
enhanceAnswer(res) ==
  IF res.status # 200 THEN JsonResponse(res.status, JsUndefined, <<>>)
  ELSE JsonResponse(200, JsString(res.longDescription),
                    <<"enhanceDescriptions", "sanitizeHTML", "ensureDisclaimer">>)

\* the answer of POST /api/enhance to a request body
serverEnhance(shortDescription, longDescription, env) ==
  enhanceAnswer(apiEnhance(shortDescription, longDescription, env))

\* an answer of the server's POST /api/extract-pdf as the front end's fetch sees it
extractAnswer(res) ==
  IF res.status # 200
  THEN [status |-> res.status, shortDescription |-> JsUndefined,
        longDescription |-> JsUndefined, path |-> <<>>, complianceWarnings |-> <<>>]
  ELSE [status |-> 200, shortDescription |-> res.shortDescription,
        longDescription |-> JsString(res.longDescription),
        path |-> <<"extractFromPDF", "sanitizeHTML", "ensureDisclaimer">>,
        complianceWarnings |-> res.complianceWarnings]

\* the answer of POST /api/extract-pdf to an upload
serverExtractPdf(upload, extracted) ==
  extractAnswer(apiExtractPdf(upload, extracted))

\* `data.longDescription || ''` with the stages of data
longOrEmpty(data) ==
  IF Truthy(data.longDescription) THEN Html(data.longDescription.str, data.path)
  ELSE EmptyHtml

\* `data.shortDescription || ''`
shortOrEmpty(data) ==
  IF Truthy(data.shortDescription) THEN data.shortDescription ELSE JsString(<<>>)

\* the page after DOMContentLoaded, for a CONFIG.workerUrl that is set or empty.
\* currentResults is currentResults.longDescription and currentShort is
\* currentResults.shortDescription; inFlight holds the requests whose fetch
\* has not been answered
LoadedPage(workerUrl) ==
  [loaded |-> TRUE,
   workerUrl |-> workerUrl,
   currentMode |-> "text",
   loadingHidden |-> TRUE,
   inFlight |-> {},
   shortInput |-> <<>>,
   enhanceShortBtnDisabled |-> TRUE,
   currentShort |-> JsString(<<>>),
   inlineShortPreview |-> <<>>,
   inlineShortEdit |-> <<>>,
   shortPreviewSectionHidden |-> TRUE,
   inlineShortEditModeHidden |-> TRUE,
   shortPreview |-> <<>>,
   shortEdit |-> <<>>,
   shortEditModeHidden |-> TRUE,
   longInput |-> <<>>,
   enhanceLongBtnDisabled |-> TRUE,
   selectedFile |-> FALSE,
   currentResults |-> EmptyHtml,
   inlineLongPreview |-> EmptyHtml,
   inlineLongEdit |-> EmptyHtml,
   longPreviewSectionHidden |-> TRUE,
   inlineLongEditModeHidden |-> TRUE,
   longPreview |-> EmptyHtml,
   longEdit |-> EmptyHtml,
   resultsSectionHidden |-> TRUE,
   longEditModeHidden |-> TRUE,
   complianceList |-> <<>>]

\* setLoading(isLoading)
setLoading(p, isLoading) == [p EXCEPT !.loadingHidden = ~isLoading]

\* switchMode(mode)
switchMode(p, mode) ==
  [p EXCEPT !.currentMode = mode,
            !.shortPreviewSectionHidden = TRUE,
            !.longPreviewSectionHidden = TRUE,
            !.resultsSectionHidden = TRUE]

\* displayShortResult(data)
displayShortResult(p, data) ==
  [p EXCEPT !.currentShort = shortOrEmpty(data),
            !.inlineShortPreview = shortOrEmpty(data).str,
            !.inlineShortEdit = shortOrEmpty(data).str,
            !.shortPreviewSectionHidden = FALSE,
            !.inlineShortEditModeHidden = TRUE]

\* displayLongResult(data)
displayLongResult(p, data) ==
  [p EXCEPT !.currentResults = longOrEmpty(data),
            !.inlineLongPreview = longOrEmpty(data),
            !.inlineLongEdit = longOrEmpty(data),
            !.longPreviewSectionHidden = FALSE,
            !.inlineLongEditModeHidden = TRUE]

\* displayPdfResults(data), displayWarnings(data) included
displayPdfResults(p, data) ==
  [p EXCEPT !.currentShort = shortOrEmpty(data),
            !.currentResults = longOrEmpty(data),
            !.shortPreview = shortOrEmpty(data).str,
            !.shortEdit = shortOrEmpty(data).str,
            !.shortEditModeHidden = TRUE,
            !.longPreview = longOrEmpty(data),
            !.longEdit = longOrEmpty(data),
            !.resultsSectionHidden = FALSE,
            !.complianceList = IF Len(data.complianceWarnings) > 0
                               THEN data.complianceWarnings ELSE @,
            !.longEditModeHidden = TRUE]

\* saveInlineEdit('long')
saveInlineEdit(p) ==
  [p EXCEPT !.currentResults = p.inlineLongEdit,
            !.inlineLongPreview = p.inlineLongEdit,
            !.inlineLongEditModeHidden = TRUE]

\* cancelInlineEdit('long')
cancelInlineEdit(p) ==
  [p EXCEPT !.inlineLongEdit = p.currentResults,
            !.inlineLongEditModeHidden = TRUE]

\* saveInlineEdit('short')
saveInlineEditShort(p) ==
  [p EXCEPT !.currentShort = JsString(p.inlineShortEdit),
            !.inlineShortPreview = p.inlineShortEdit,
            !.inlineShortEditModeHidden = TRUE]

\* cancelInlineEdit('short')
cancelInlineEditShort(p) ==
  [p EXCEPT !.inlineShortEdit = p.currentShort.str,
            !.inlineShortEditModeHidden = TRUE]

\* saveEdit('long')
saveEdit(p) ==
  [p EXCEPT !.currentResults = p.longEdit,
            !.longPreview = p.longEdit,
            !.longEditModeHidden = TRUE]

\* cancelEdit('long')
cancelEdit(p) ==
  [p EXCEPT !.longEdit = p.currentResults,
            !.longEditModeHidden = TRUE]

\* resetAll()
resetAll(p) ==
  [p EXCEPT !.shortInput = <<>>,
            !.enhanceShortBtnDisabled = TRUE,
            !.shortPreviewSectionHidden = TRUE,
            !.currentShort = JsString(<<>>),
            !.longInput = <<>>,
            !.selectedFile = FALSE,
            !.longPreviewSectionHidden = TRUE,
            !.resultsSectionHidden = TRUE,
            !.currentResults = EmptyHtml,
            !.enhanceLongBtnDisabled = TRUE]

(***************************************************************************)
(* Inputs.  The strings are written from parts, so that the constructs the *)
(* passes look for (and constructs hidden inside one another) occur within *)
(* a few parts.                                                            *)
(***************************************************************************)
\* depth of nesting of the constructs of Spec's inputs
MaxNest == 3

\* number of text parts between the tags of SpecElement's inputs
MaxTextParts == 2

\* number of parts of SpecPlain's inputs
MaxPlainParts == 3

\* number of declarations in the style attribute of SpecStyle's inputs
MaxDecls == 2

\* number of parts of the strings among SpecValues' inputs
MaxValueParts == 1

RECURSIVE Concats(_, _)
\* every concatenation of at most n parts
Concats(parts, n) ==
  IF n = 0 THEN {<<>>}
  ELSE LET prev == Concats(parts, n - 1)
       IN  prev \cup {p \o s : p \in parts, s \in prev}

RECURSIVE SeqsUpTo(_, _)
\* every sequence of at most n elements of set
SeqsUpTo(set, n) ==
  IF n = 0 THEN {<<>>}
  ELSE LET prev == SeqsUpTo(set, n - 1)
       IN  prev \cup {<<e>> \o s : e \in set, s \in prev}

\* constructs, each cut in two where another construct can be put inside
Constructs ==
  { [left |-> <<"j","a","v","a">>, right |-> <<"s","c","r","i","p","t",":">>],
    [left |-> <<"v","b">>, right |-> <<"s","c","r","i","p","t",":">>],
    [left |-> <<"d","a">>, right |-> <<"t","a",":">>],
    [left |-> <<"o">>, right |-> <<"n","c","l","i","c","k","=">>],
    [left |-> <<"<">>, right |-> <<"d","i","v",">">>],
    [left |-> <<"<">>, right |-> <<"s","c","r","i","p","t",">">>],
    [left |-> <<"<","p",">">>, right |-> <<"S","a","f","e","<","/","p",">">>],
    [left |-> <<"<","e","m",">">>, right |-> <<"<","/","e","m",">">>] }

RECURSIVE Nested(_)
\* constructs nested in one another, at most n deep
Nested(n) ==
  IF n = 0 THEN {<<>>}
  ELSE LET prev == Nested(n - 1)
       IN  prev \cup {c.left \o x \o c.right : c \in Constructs, x \in prev}

\* the front end is not loaded
NoPage == [loaded |-> FALSE]

NoParts == [kind |-> "none", tag |-> <<>>, text |-> <<>>, attrs |-> <<>>, decls |-> <<>>]

\* tag names of the elements <tag>text</tag>
ElementTags ==
  { <<"d","i","v">>, <<"h","1">>, <<"a">>,
    <<"s","c","r","i","p","t">>, <<"s","t","y","l","e">>, <<"i","f","r","a","m","e">>,
    <<"o","b","j","e","c","t">>, <<"e","m","b","e","d">> }

DangerousContainers ==
  { <<"s","c","r","i","p","t">>, <<"s","t","y","l","e">>, <<"i","f","r","a","m","e">>,
    <<"o","b","j","e","c","t">>, <<"e","m","b","e","d">> }

TextParts ==
  { <<"T","e","x","t">>, <<"d","a","t","a",":">>, <<"o","n","l","y","=","1">>,
    <<"a","l","e","r","t","(","1",")">>, <<" ","C","o","n","t","e","n","t"," ","i","n"," ","d","i","v">>, <<"C","o","v","e","r","a","g","e"," ">> }

element(tag, text) == <<"<">> \o tag \o <<">">> \o text \o <<"<", "/">> \o tag \o <<">">>

PlainParts ==
  { <<"J","u","s","t"," ","p","l","a","i","n"," ","t","e","x","t"," ">>, <<"d","a","t","a",":">>, <<"o","n">>,
    <<"s","a","l","e"," ","=">>, <<"J","a","v","a","S","c","r","i","p","t",":">>, <<" ","n","o"," ","H","T","M","L">>,
    <<"x">> }

\* declarations of a style attribute
Declarations ==
  { <<"f","o","n","t","-","s","i","z","e",":"," ","1","2","p","x">>,
    <<"f","o","n","t","-","s","t","y","l","e",":","i","t","a","l","i","c">>,
    <<" ","F","O","N","T","-","S","I","Z","E"," ",":"," ","s","m","a","l","l","e","r"," ">>,
    <<"c","o","l","o","r",":"," ","r","e","d">>,
    <<"b","a","c","k","g","r","o","u","n","d",":"," ","u","r","l","(","e","v","i","l",".","j","s",")">>,
    <<"f","o","n","t","-","s","i","z","e",":"," ","e","x","p","r","e","s","s","i","o","n","(","a","l","e","r","t","(","1",")",")">>,
    <<"f","o","n","t","-","s","i","z","e",":"," ","E","X","P","R","E","S","S","I","O","N","(","a","l","e","r","t","(","1",")",")">>,
    <<"f","o","n","t","-","s","t","y","l","e",":"," ","U","r","l","(","x",")">> }

\* attributes written before the style attribute
OtherAttributes == { <<>>, <<"c","l","a","s","s","=","\"","a","\""," ">>, <<"i","d","=","x"," ">> }

StyleTags == { <<"p">>, <<"s","p","a","n">> }

styledElement(tag, attrs, decls) ==
  <<"<">> \o tag \o <<" ">> \o attrs \o <<"s","t","y","l","e","=","\"">>
    \o join(decls, <<";">>) \o <<"\"", ">", "X", "<", "/">> \o tag \o <<">">>

ValueParts ==
  { <<"<","p",">","P","a","r","a","<","/","p",">">>, <<"g","u","a","r","a","n","t","e","e">>, <<"T","e","r","m","s"," ","a","n","d"," ","c","o","n","d","i","t","i","o","n","s"," ","a","p","p","l","y",".">>,
    <<"t","e","r","m","s"," ","a","n","d"," ","c","o","n","d","i","t","i","o","n","s"," ","a","p","p","l","y">> }

\* JavaScript values that are not strings
NonStrings ==
  { JsNull, JsUndefined, JsNumber(<<"0">>), JsNumber(<<"5">>), JsNumber(<<"N","a","N">>),
    JsBoolean(TRUE), JsBoolean(FALSE), JsObject, JsSymbol, JsArray(<<>>) }
    \cup {JsArray(<<s>>) : s \in Concats(ValueParts, MaxValueParts)}

JsValues == NonStrings \cup {JsString(s) : s \in Concats(ValueParts, MaxValueParts)}

\* number of parts of the texts of the compliance scans
MaxComplianceParts == 2

\* parts of the texts given to the compliance scanner: each keyword rule in
\* some spelling, words that only contain a keyword, rules sharing a message
ComplianceParts ==
  { <<"G","u","a","r","a","n","t","e","e","d"," ","s","a","v","i","n","g","s","!"," ">>,
    <<"A","C","T"," ","N","O","W","!","!"," ">>,
    <<"D","o","n","'","t"," ","g","o"," ","b","a","n","k","r","u","p","t","."," ">>,
    <<"A","v","o","i","d"," ","d","e","v","a","s","t","a","t","i","n","g"," ","b","i","l","l","s",","," ","y","o","u"," ","n","e","e","d"," ","t","h","i","s","."," ">>,
    <<"u","l","t","i","m","a","t","e","l","y"," ","b","e","s","t","o","w"," ","n","e","v","e","r","t","h","e","l","e","s","s"," ">>,
    <<"T","h","e"," ","<","s","t","r","o","n","g",">","b","e","s","t","<","/","s","t","r","o","n","g",">"," ","p","l","a","n"," ">>,
    <<"e","v","e","r","y","o","n","e"," ","w","h","o"," ","s","a","y","s"," ","n","o"," ","r","e","g","r","e","t","s"," ","d","o","n","t"," ","m","i","s","s"," ">> }

ComplianceTexts == Concats(ComplianceParts, MaxComplianceParts)

\* short texts of the scans of two texts together and apart: some end with
\* the first word of a rule's phrase or with an open tag marker
JoinShorts ==
  { JsString(<<"P","l","e","a","s","e"," ","a","c","t">>),
    JsString(<<"L","i","m","i","t","e","d">>),
    JsString(<<"I","t"," ","i","s"," ","r","e","q","u","i","r","e","d"," ","b","y">>),
    JsString(<<"T","h","e"," ","b","e","s","t"," ","p","l","a","n">>),
    JsString(<<"C","o","v","e","r","s"," ","a"," ","<","b">>),
    JsString(<<"G","o","o","d"," ","p","l","a","n","!">>),
    JsString(<<"C","o","v","e","r","s"," ","t","i","r","e","s",".">>),
    JsString(<<>>), JsNull }

\* long texts of the scans of two texts together and apart: some start with
\* the last words of a rule's phrase or close a tag marker
JoinLongs ==
  { JsString(<<"n","o","w"," ","o","r"," ","l","a","t","e","r">>),
    JsString(<<"t","i","m","e"," ","o","f","f","e","r">>),
    JsString(<<"l","a","w"," ","i","n"," ","s","o","m","e"," ","s","t","a","t","e","s">>),
    JsString(<<"n","e","v","e","r"," ",">"," ","x">>),
    JsString(<<"<","p",">","F","i","n","e",".","<","/","p",">">>),
    JsString(<<"!"," ","A","l","w","a","y","s",".">>),
    JsString(<<"b","o","l","d",">"," ","t","h","e"," ","b","e","s","t">>),
    JsString(<<>>), JsNull }

\* number of parts of the texts a keyword is added to
MaxCleanParts == 2

\* parts of texts without a keyword, with places where an added word joins
\* a word or falls inside a tag
CleanParts ==
  { <<"G","o","o","d"," ","p","l","a","n">>,
    <<"."," ">>,
    <<"x">>,
    <<"<","b"," ">>,
    <<">">>,
    <<"n","e","v","e","r"," ">> }

\* the keywords of PROHIBITED_KEYWORDS, letter by letter, in rule order
KeywordLetters ==
  << <<"g","u","a","r","a","n","t","e","e">>,
     <<"n","e","v","e","r">>,
     <<"a","l","w","a","y","s">>,
     <<"r","e","q","u","i","r","e","d"," ","b","y"," ","l","a","w">>,
     <<"m","a","n","d","a","t","o","r","y">>,
     <<"b","e","s","t">>,
     <<"u","l","t","i","m","a","t","e">>,
     <<"a","c","t"," ","n","o","w">>,
     <<"l","i","m","i","t","e","d"," ","t","i","m","e">>,
     <<"d","o","n","'","t"," ","m","i","s","s">> >>

UpperOf ==
  [c \in LowerSet |-> UpperChars[CHOOSE k \in DOMAIN LowerChars : LowerChars[k] = c]]

toUpperCase(s) == [k \in 1..Len(s) |-> IF s[k] \in LowerSet THEN UpperOf[s[k]] ELSE s[k]]

\* a keyword in lower case, in upper case, and with a capital first letter
Spellings(letters) ==
  { letters, toUpperCase(letters),
    toUpperCase(SubSeq(letters, 1, 1)) \o SubSeq(letters, 2, Len(letters)) }

\* text with word put in after its first at characters
InsertAt(text, word, at) ==
  SubSeq(text, 1, at) \o word \o SubSeq(text, at + 1, Len(text))

\* what a keyword is written between: nothing, or letters, digits and
\* underscores that make it a part of a longer word
LeftGlue == { <<>>, <<"r","e">>, <<"_">> }

RightGlue ==
  { <<>>, <<"l","y">>, <<"o","w">>, <<"t","h","e","l","e","s","s">>, <<"d">>, <<"s">>, <<"1">> }

TextsBefore == { <<>>, <<"T","h","e"," ">>, <<"<","p",">">> }

TextsAfter == { <<>>, <<" ","p","l","a","n",".">>, <<"<","/","p",">">>, <<" ","d","o","n","t"," ","m","i","s","s">> }

\* number of parts of the texts given to the disclaimer manager
MaxDisclaimerParts == 2

\* parts of long descriptions: each indicator, indicators cut by a line break
\* or by a tag, the phrase inside a tag, a tag left open at the end
DisclaimerParts ==
  { <<"<","p",">","C","o","v","e","r","a","g","e"," ","i","n","f","o",".","<","/","p",">">>,
    <<"<","p",">","T","h","i","s"," ","h","a","s"," ","L","i","m","i","t","a","t","i","o","n","s"," ","a","n","d"," ","E","x","c","l","u","s","i","o","n","s",".","<","/","p",">">>,
    <<"P","l","e","a","s","e"," ","r","e","v","i","e","w","\n">>,
    <<" ","t","h","e"," ","f","u","l","l"," ","c","o","n","t","r","a","c","t"," ","t","e","r","m","s",".">>,
    <<"T","e","r","m","s"," ","a","n","d"," ","c","o","n","d","i","t","i","o","n","s"," ","a","p","p","l","y",".">>,
    <<"C","o","v","e","r","a","g","e","<","b","r","\n","/",">">>,
    <<" ","l","i","m","i","t","a","t","i","o","n","s">>,
    <<"S","o","m","e"," ","e","x","c","l","u","s","i","o","n","s"," ","a","p","p","l","y"," ">>,
    <<"<","a"," ","t","i","t","l","e","=","\"","l","i","m","i","t","a","t","i","o","n","s"," ","a","n","d"," ","e","x","c","l","u","s","i","o","n","s","\"",">">>,
    <<"t","e","x","t"," ","<","a"," ","t","i","t","l","e","=","\"">>,
    <<"S","e","e"," ","c","o","n","t","r","a","c","t"," ","f","o","r"," ","f","u","l","l"," ","d","e","t","a","i","l","s",".">> }

DisclaimerTexts == Concats(DisclaimerParts, MaxDisclaimerParts)

\* the fields of a request body of POST /api/enhance (JSON values; an absent
\* field is undefined)
RequestValues ==
  { JsUndefined, JsNull, JsString(<<>>), JsNumber(<<"5">>),
    JsString(<<"G","o","o","d"," ","c","o","v","e","r","a","g","e",".">>),
    JsString(<<"G","u","a","r","a","n","t","e","e","d"," ","t","o"," ","s","a","v","e"," ","y","o","u"," ","m","o","n","e","y","!"," ","A","c","t"," ","n","o","w","!">>),
    JsString(<<"<","s","c","r","i","p","t",">","a","l","e","r","t","(","1",")","<","/","s","c","r","i","p","t",">","<","p",">","S","a","f","e"," ","c","o","n","t","e","n","t","<","/","p",">">>) }

\* long descriptions as a completion, the worker or the extraction may write them
GeneratedTexts ==
  { <<"<","p",">","C","o","v","e","r","a","g","e"," ","i","n","f","o",".","<","/","p",">">>,
    <<"<","s","c","r","i","p","t",">","l","i","m","i","t","a","t","i","o","n","s"," ","a","n","d"," ","e","x","c","l","u","s","i","o","n","s","<","/","s","c","r","i","p","t",">">>,
    <<"<","p",">","T","e","r","m","s"," ","a","n","d"," ","c","o","n","d","i","t","i","o","n","s"," ","a","p","p","l","y",".","<","/","p",">"," ">>,
    <<"<","d","i","v",">","T","h","e"," ","b","e","s","t"," ","p","l","a","n","!","!","<","/","d","i","v",">","<">>,
    <<>> }

\* the longDescription field of the worker's JSON answer
WorkerLongValues ==
  {JsString(s) : s \in GeneratedTexts} \cup {JsUndefined, JsNumber(<<"5">>)}

\* the shortDescription field of the worker's JSON answer
WorkerShortValues ==
  { JsUndefined, JsString(<<"P","r","o","t","e","c","t","s"," ","y","o","u","r"," ","v","e","h","i","c","l","e",".">>),
    JsArray(<< <<"a","l","w","a","y","s">> >>) }

NoWorkerResult == [shortDescription |-> JsUndefined, longDescription |-> JsUndefined]

\* what the environment of enhanceDescriptions can be: the worker answers,
\* the worker fails and there is no key, or the completions are called
Environments ==
  { [workerUrl |-> TRUE, workerOk |-> TRUE, apiKey |-> FALSE,
     workerResult |-> [shortDescription |-> s, longDescription |-> l],
     aiShort |-> AiFailure, aiLong |-> AiFailure] :
       s \in WorkerShortValues, l \in WorkerLongValues }
  \cup
  { [workerUrl |-> TRUE, workerOk |-> FALSE, apiKey |-> FALSE,
     workerResult |-> NoWorkerResult, aiShort |-> AiFailure, aiLong |-> AiFailure] }
  \cup
  { [workerUrl |-> w, workerOk |-> FALSE, apiKey |-> TRUE,
     workerResult |-> NoWorkerResult, aiShort |-> s, aiLong |-> l] :
       w \in BOOLEAN,
       s \in {AiFailure, AiAnswer(<<" "," ","T","h","e"," ","u","l","t","i","m","a","t","e"," ","p","l","a","n","."," "," ">>)},
       l \in {AiFailure} \cup {AiAnswer(g) : g \in GeneratedTexts} }

\* what extractFromPDF can return
Extractions ==
  { [success |-> FALSE, shortDescription |-> JsUndefined,
     longDescription |-> JsUndefined, confidence |-> D_0, sections |-> "none"] }
  \cup
  { [success |-> TRUE, shortDescription |-> s, longDescription |-> l,
     confidence |-> c, sections |-> "analysis"] :
       s \in WorkerShortValues \ {JsUndefined}, l \in WorkerLongValues \ {JsUndefined},
       c \in {Double(214748364, 429496720), D_0_8, Double(228170137, 322122544)} }

Uploads == {"none", "pdf", "notPdf", "tooLarge"}

\* what the user types into the long description input
LongInputs == { <<" "," "," ">>, <<"<","p",">","P","l","a","n","<","/","p",">">> }

\* what the user types into an edit field of a long description
EditedTexts == { <<"<","i","m","g"," ","s","r","c","=","x"," ","o","n","e","r","r","o","r","=","a","l","e","r","t","(","1",")",">">> }

\* the server's environments the page is run against: the completions are
\* called, and the long one fails or answers
PageEnvironments ==
  { env \in Environments :
      /\ ~env.workerUrl
      /\ env.aiShort = AiFailure
      /\ env.aiLong \in {AiFailure, AiAnswer(<<"<","d","i","v",">","T","h","e"," ","b","e","s","t"," ","p","l","a","n","!","!","<","/","d","i","v",">","<">>)} }

\* the extractions the page is run against
PageExtractions ==
  { e \in Extractions :
      /\ e.confidence = D_0_8
      /\ e.shortDescription.type = "string"
      /\ e.longDescription \in {JsString(<<>>), JsString(<<"<","p",">","C","o","v","e","r","a","g","e"," ","i","n","f","o",".","<","/","p",">">>)} }
  \cup {e \in Extractions : ~e.success}

\* the files the user may pick
PickedFiles == {"pdf", "notPdf", "tooLarge"}

\* the worker's side: its key, whether the completion gave the expected
\* JSON, and the JSON it gave
WorkerEnvironments ==
  { [apiKey |-> FALSE, aiOk |-> FALSE, result |-> NoWorkerResult],
    [apiKey |-> TRUE, aiOk |-> FALSE, result |-> NoWorkerResult] }
  \cup
  { [apiKey |-> TRUE, aiOk |-> TRUE,
     result |-> [shortDescription |-> JsUndefined, longDescription |-> l]] :
       l \in { JsUndefined,
               JsString(<<"<","p",">","C","o","v","e","r","a","g","e"," ","i","n","f","o",".","<","/","p",">">>),
               JsString(<<"<","i","m","g"," ","s","r","c","=","x"," ","o","n","e","r","r","o","r","=","a","l","e","r","t","(","1",")",">">>) } }

\* raw texts, as runs: short, garbled, long without and with sentences, at
\* the lengths 500 and 1000 exactly, and empty
RawTexts ==
  { << <<<<"S","h","o","r","t"," ","t","e","x","t"," ","a","b","o","u","t"," ","c","o","v","e","r","a","g","e",".">>, 1>> >>,
    << <<<<"@","#","$","%","^","&","*","(",")","!","@","#","$","%">>, 1>> >>,
    << <<<<"T","i","r","e"," ","a","n","d"," ","w","h","e","e","l"," ","p","l","a","n","."," ">>, 4>> >>,
    << <<<<"A"," ">>, 600>> >>,
    << <<<<"A"," ">>, 600>>, <<<<"T","h","i","s"," ","i","s"," ","a"," ","d","o","c","u","m","e","n","t"," ","a","b","o","u","t"," ","t","i","r","e"," ","a","n","d"," ","w","h","e","e","l"," ","p","r","o","t","e","c","t","i","o","n",".">>, 1>> >>,
    << <<<<"G","o","o","d"," ","p","l","a","n","."," ">>, 500>> >>,
    << <<<<"a","b">>, 250>> >>,
    << <<<<"a","b">>, 500>> >>,
    <<>> }

ProductNames == { JsNull, JsString(<<>>), JsString(<<"T","e","s","t"," ","P","r","o","t","e","c","t","i","o","n"," ","P","l","a","n">>) }

ProductTypes == { JsNull, JsString(<<"E","x","t","e","n","d","e","d"," ","W","a","r","r","a","n","t","y">>) }

CoverageLists ==
  { <<>>, << <<"A">>, <<"B">> >>, << <<"A">>, <<"B">>, <<"C">> >>,
    << <<"A">>, <<"B">>, <<"C">>, <<"D">>, <<"E">> >> }

SectionLists == { ListOf(<<>>), ListOf(<< <<"X">> >>) }

\* analyses as analyzeText and the tests write them
Analyses ==
  { [productName |-> n, productType |-> y, coverage |-> c,
     benefits |-> b, limitations |-> l, disclaimers |-> d] :
       n \in ProductNames, y \in ProductTypes, c \in CoverageLists,
       b \in SectionLists \cup {NoList}, l \in SectionLists, d \in SectionLists }

\* the positive factors of an analysis
Factors ==
  {"productName", "productType", "coverage", "benefits", "limitations", "disclaimers"}

\* the factor is established in the analysis
hasFactor(analysis, factor) ==
  CASE factor = "productName" -> Truthy(analysis.productName)
    [] factor = "productType" -> Truthy(analysis.productType)
    [] factor = "coverage" -> Len(analysis.coverage) >= 3
    [] factor = "benefits" ->
         Truthy(analysis.benefits) /\ Len(analysis.benefits.items) > 0
    [] factor = "limitations" ->
         Truthy(analysis.limitations) /\ Len(analysis.limitations.items) > 0
    [] factor = "disclaimers" ->
         Truthy(analysis.disclaimers) /\ Len(analysis.disclaimers.items) > 0

\* the analysis with the factor established and everything else equal
withFactor(analysis, factor) ==
  CASE factor = "productName" ->
         [analysis EXCEPT !.productName = JsString(<<"T","e","s","t"," ","P","r","o","t","e","c","t","i","o","n"," ","P","l","a","n">>)]
    [] factor = "productType" ->
         [analysis EXCEPT !.productType = JsString(<<"E","x","t","e","n","d","e","d"," ","W","a","r","r","a","n","t","y">>)]
    [] factor = "coverage" ->
         [analysis EXCEPT !.coverage = << <<"A">>, <<"B">>, <<"C">> >>]
    [] factor = "benefits" -> [analysis EXCEPT !.benefits = ListOf(<< <<"X">> >>)]
    [] factor = "limitations" -> [analysis EXCEPT !.limitations = ListOf(<< <<"X">> >>)]
    [] factor = "disclaimers" -> [analysis EXCEPT !.disclaimers = ListOf(<< <<"X">> >>)]

\* what generateDescriptionsWithAI returns, or its failure
Generations ==
  { [ok |-> FALSE, shortDescription |-> JsUndefined, longDescription |-> JsUndefined],
    [ok |-> TRUE,
     shortDescription |-> JsString(<<"P","r","o","t","e","c","t","s"," ","y","o","u","r"," ","v","e","h","i","c","l","e",".">>),
     longDescription |-> JsString(<<"<","p",">","C","o","v","e","r","a","g","e"," ","i","n","f","o",".","<","/","p",">">>)] }

\* short descriptions offered for publishing
PublishShorts ==
  { JsNull, JsUndefined, JsString(<<>>), JsNumber(<<"5">>),
    JsString(<<"G","o","o","d"," ","c","o","v","e","r","a","g","e","."," ","P","r","o","t","e","c","t","s"," ","y","o","u","r"," ","c","a","r","."," ","I","d","e","a","l"," ","f","o","r"," ","y","o","u",".">>),
    JsString(<<"S","e","n","t","e","n","c","e"," ","o","n","e","."," ","S","e","n","t","e","n","c","e"," ","t","w","o","."," ","S","e","n","t","e","n","c","e"," ","t","h","r","e","e","."," ","S","e","n","t","e","n","c","e"," ","f","o","u","r",".">>),
    JsString(<<"<","s","t","r","o","n","g",">","B","o","l","d","<","/","s","t","r","o","n","g",">"," ","t","e","x","t">>),
    JsString(<<"G","u","a","r","a","n","t","e","e","d"," ","s","a","v","i","n","g","s","!"," ","A","c","t"," ","n","o","w","!","!"," ","R","e","a","l","l","y","?"," ","Y","e","s","."," ","N","o",".">>),
    JsString(<<"5"," ","<"," ","6"," ","a","n","d"," ","7"," ",">"," ","3">>),
    JsString(<<"a"," ","<",">"," ","b">>),
    JsString(<<"O","n","e","."," ","T","w","o","."," ","T","h","r","e","e","."," ","F","o","u","r","."," ","<","b",">">>),
    JsString(<<"C","o","s","t","s"," ","3",".","5"," ","d","o","l","l","a","r","s",".",".","."," ">>),
    JsString(<<" ","."," ","!"," ","?"," ">>),
    JsString(<<"B","e","s","t"," ","p","l","a","n"," ","<","b","r">>),
    JsString(<<"x"," ",">"," ","y"," ","<"," ","z">>) }

\* long descriptions offered for publishing
PublishLongs ==
  { JsNull, JsString(<<>>), JsNumber(<<"5">>),
    JsString(<<"<","p",">","D","e","t","a","i","l","s"," ","h","e","r","e",".","<","/","p",">","<","p",">","<","e","m",">","T","h","i","s"," ","c","o","v","e","r","a","g","e"," ","h","a","s"," ","l","i","m","i","t","a","t","i","o","n","s"," ","a","n","d"," ","e","x","c","l","u","s","i","o","n","s",".","<","/","e","m",">","<","/","p",">">>),
    JsString(<<"<","p",">","J","u","s","t"," ","s","o","m","e"," ","c","o","v","e","r","a","g","e"," ","i","n","f","o"," ","w","i","t","h","o","u","t"," ","d","i","s","c","l","a","i","m","e","r",".","<","/","p",">">>),
    JsString(<<"<","p",">","T","h","e"," ","b","e","s","t"," ","p","l","a","n",","," ","g","u","a","r","a","n","t","e","e","d",".","<","/","p",">">>),
    JsString(<<"S","e","e"," ","c","o","n","t","r","a","c","t"," ","f","o","r"," ","f","u","l","l"," ","d","e","t","a","i","l","s","."," ","N","e","v","e","r"," ","w","o","r","r","y","!","!">>) }

\* number of calls of a request
MaxCalls == 2

\* the calls the simultaneous requests make
CoreCalls ==
  { CoreCall("sanitizeHTML", JsString(<<"<","p"," ","o","n","c","l","i","c","k","=","x",">","B","e","s","t","<","/","p",">","<","s","c","r","i","p","t",">","x","<","/","s","c","r","i","p","t",">">>), JsUndefined),
    CoreCall("checkCompliance", JsString(<<"G","u","a","r","a","n","t","e","e","d"," ","s","a","v","i","n","g","s">>), JsString(<<"n","e","v","e","r","!","!">>)),
    CoreCall("checkCompliance", JsString(<<"G","o","o","d"," ","g","u","a","r","a","n","t","e","e">>), JsNull),
    CoreCall("hasDisclaimer", JsString(<<"T","e","r","m","s"," ","a","n","d"," ","c","o","n","d","i","t","i","o","n","s"," ","a","p","p","l","y",".">>), JsUndefined),
    CoreCall("ensureDisclaimer", JsString(<<"<","p",">","C","o","v","e","r","a","g","e"," ","i","n","f","o",".","<","/","p",">">>), JsUndefined) }

\* the calls of a request, in their order
RequestCalls == [1..MaxCalls -> CoreCalls]

\* the calls of the other request: those that test the patterns
OtherRequestCalls ==
  [1..MaxCalls -> {c \in CoreCalls : c.fn \in {"checkCompliance", "ensureDisclaimer"}}]

\* what the user types into the short description input
ShortInputs == { <<"T","i","r","e"," ","p","l","a","n">> }

\* what the user types into the inline edit field of a short description
EditedShorts == { <<"E","d","i","t","e","d",".">> }

\* what a fetch of the enhance endpoint can be answered while other events
\* take place
EnhanceAnswers ==
  { JsonResponse(500, JsUndefined, <<>>) @@ [shortDescription |-> JsUndefined],
    JsonResponse(200, JsString(<<"<","p",">","T","i","r","e","s",".","<","/","p",">">>), <<"enhance">>) @@ [shortDescription |-> JsString(<<"C","o","v","e","r","s"," ","t","i","r","e","s",".">>)] }

\* what a fetch of /api/extract-pdf can be answered
ExtractAnswers ==
  { [status |-> 400, shortDescription |-> JsUndefined, longDescription |-> JsUndefined,
     path |-> <<>>, complianceWarnings |-> <<>>],
    [status |-> 200, shortDescription |-> JsString(<<"F","r","o","m"," ","t","h","e"," ","P","D","F",".">>), longDescription |-> JsString(<<"<","p",">","P","D","F",".","<","/","p",">">>),
     path |-> <<"extract">>, complianceWarnings |-> <<>>] }

(***************************************************************************)
(* The calls.                                                              *)
(***************************************************************************)
InitCommon ==
  /\ fn = "none"
  /\ pc = "ready"
  /\ out = NoCall
  /\ out2 = NoCall
  /\ page = NoPage

\* sanitizeHTML(arg)
CallSanitizeHTML ==
  /\ pc = "ready"
  /\ fn' = "sanitizeHTML"
  /\ out' = sanitizeHTML(arg)
  /\ pc' = "returned"
  /\ UNCHANGED <<arg, arg2, given, out2, page>>

\* sanitizeHTML(sanitizeHTML(arg))
SanitizeAgain ==
  /\ pc = "returned"
  /\ fn = "sanitizeHTML"
  /\ ~out.raised
  /\ out2' = sanitizeHTML(JsString(out.value))
  /\ pc' = "returned2"
  /\ UNCHANGED <<fn, arg, arg2, given, out, page>>

\* validateHTML on what sanitizeHTML(arg) returned
ValidateSanitized ==
  /\ pc = "returned"
  /\ fn = "sanitizeHTML"
  /\ ~out.raised
  /\ fn' = "validateHTML"
  /\ out2' = validateHTML(JsString(out.value))
  /\ pc' = "returned2"
  /\ UNCHANGED <<arg, arg2, given, out, page>>

\* checkCompliance(arg, arg2)
CallCheckCompliance ==
  /\ pc = "ready"
  /\ fn' = "checkCompliance"
  /\ out' = checkCompliance(arg, arg2)
  /\ pc' = "returned"
  /\ UNCHANGED <<arg, arg2, given, out2, page>>

\* checkCompliance(arg, '') and checkCompliance('', arg2)
CallCheckApart ==
  /\ pc = "returned"
  /\ fn = "checkCompliance"
  /\ out2' = Return([short |-> checkCompliance(arg, JsString(<<>>)),
                     long |-> checkCompliance(JsString(<<>>), arg2)])
  /\ pc' = "returned2"
  /\ UNCHANGED <<fn, arg, arg2, given, out, page>>

\* hasDisclaimer(arg)
CallHasDisclaimer ==
  /\ pc = "ready"
  /\ fn' = "hasDisclaimer"
  /\ out' = hasDisclaimer(arg)
  /\ pc' = "returned"
  /\ UNCHANGED <<arg, arg2, given, out2, page>>

\* validateForPublishing(arg, arg2)
CallValidateForPublishing ==
  /\ pc = "ready"
  /\ fn' = "validateForPublishing"
  /\ out' = validateForPublishing(arg, arg2)
  /\ pc' = "returned"
  /\ UNCHANGED <<arg, arg2, given, out2, page>>

\* the next call of the first request runs to its end on the shared rule sets
ServeFirst ==
  /\ pc = "serving"
  /\ arg # <<>>
  /\ \E o \in {perform(Head(arg), given.rules)} :
       /\ out' = [call |-> Head(arg), result |-> o.result]
       /\ given' = [given EXCEPT !.rules = o.rules]
  /\ fn' = Head(arg).fn
  /\ arg' = Tail(arg)
  /\ UNCHANGED <<arg2, pc, out2, page>>

\* the next call of the second request
ServeSecond ==
  /\ pc = "serving"
  /\ arg2 # <<>>
  /\ \E o \in {perform(Head(arg2), given.rules)} :
       /\ out' = [call |-> Head(arg2), result |-> o.result]
       /\ given' = [given EXCEPT !.rules = o.rules]
  /\ fn' = Head(arg2).fn
  /\ arg2' = Tail(arg2)
  /\ UNCHANGED <<arg, pc, out2, page>>

\* ensureDisclaimer(arg)
CallEnsureDisclaimer ==
  /\ pc = "ready"
  /\ fn' = "ensureDisclaimer"
  /\ out' = ensureDisclaimer(arg)
  /\ pc' = "returned"
  /\ UNCHANGED <<arg, arg2, given, out2, page>>

\* checkCompliance on the text of arg with the keyword of given added to it
ScanWithKeyword ==
  /\ pc = "returned"
  /\ fn = "checkCompliance"
  /\ given.kind = "keyword"
  /\ out2' = checkCompliance(JsString(InsertAt(given.text, given.word, given.at)), arg2)
  /\ pc' = "returned2"
  /\ UNCHANGED <<fn, arg, arg2, given, out, page>>

\* ensureDisclaimer(ensureDisclaimer(arg))
EnsureAgain ==
  /\ pc = "returned"
  /\ fn = "ensureDisclaimer"
  /\ ~out.raised
  /\ out2' = ensureDisclaimer(JsString(out.value))
  /\ pc' = "returned2"
  /\ UNCHANGED <<fn, arg, arg2, given, out, page>>

\* POST /api/enhance with the body { shortDescription: arg, longDescription: arg2 }
ApiEnhance ==
  /\ pc = "ready"
  /\ \E env \in Environments :
       \E run \in {enhanceRun(arg, arg2, env)} :
         \* the client receives the first response the handler writes
         /\ out' = run.responses[1]
         /\ given' = [kind |-> "enhance", env |-> env,
                      enhanced |-> enhanceDescriptions(arg, arg2, env),
                      run |-> run]
  /\ fn' = "POST /api/enhance"
  /\ pc' = "returned"
  /\ UNCHANGED <<arg, arg2, out2, page>>

\* POST /api/extract-pdf
ApiExtractPdf ==
  /\ pc = "ready"
  /\ \E upload \in Uploads, extracted \in Extractions :
       /\ out' = apiExtractPdf(upload, extracted)
       /\ given' = [kind |-> "extract", upload |-> upload, extracted |-> extracted]
  /\ fn' = "POST /api/extract-pdf"
  /\ pc' = "returned"
  /\ UNCHANGED <<arg, arg2, out2, page>>

\* the input event of the long description: handleTextInput
PageInput ==
  /\ page.loaded
  /\ \E text \in LongInputs :
       page' = [page EXCEPT !.longInput = text,
                            !.enhanceLongBtnDisabled = (trim(text) = <<>>)]
  /\ UNCHANGED <<fn, arg, arg2, given, pc, out, out2>>

\* handleFileSelect(file)
PageSelectFile ==
  /\ page.loaded
  /\ \E file \in PickedFiles :
       page' = IF file = "pdf" THEN [page EXCEPT !.selectedFile = TRUE] ELSE page
  /\ UNCHANGED <<fn, arg, arg2, given, pc, out, out2>>

\* a click on the enhance button of the long description:
\* enhanceLongDescription(), with the answer of the worker when
\* CONFIG.workerUrl is set and of the server's /api/enhance otherwise
PageEnhanceLong ==
  /\ page.loaded
  /\ ~page.enhanceLongBtnDisabled
  /\ LET longDescription == trim(page.longInput)
     IN  IF longDescription = <<>> THEN page' = page
         ELSE \E data \in IF page.workerUrl THEN given.worker
                          ELSE given.enhance[page.longInput] :
                page' = IF data.status # 200 THEN page
                        ELSE displayLongResult(page, data)
  /\ UNCHANGED <<fn, arg, arg2, given, pc, out, out2>>

\* a click on the extract button: extractFromPDF(), always to the server
PageExtractFromPDF ==
  /\ page.loaded
  /\ page.selectedFile
  /\ \E data \in given.extract :
       page' = IF data.status # 200 THEN page
               ELSE displayPdfResults(page, data)
  /\ UNCHANGED <<fn, arg, arg2, given, pc, out, out2>>

\* showInlineEditMode('long')
PageShowInlineEditMode ==
  /\ page.loaded
  /\ ~page.longPreviewSectionHidden
  /\ page.inlineLongEditModeHidden
  /\ page' = [page EXCEPT !.inlineLongEditModeHidden = FALSE]
  /\ UNCHANGED <<fn, arg, arg2, given, pc, out, out2>>

\* the user types in the inline edit field of the long description
PageTypeInlineEdit ==
  /\ page.loaded
  /\ ~page.longPreviewSectionHidden
  /\ ~page.inlineLongEditModeHidden
  /\ \E text \in EditedTexts :
       page' = [page EXCEPT !.inlineLongEdit = Html(text, <<"inlineLongEdit">>)]
  /\ UNCHANGED <<fn, arg, arg2, given, pc, out, out2>>

\* a click on the inline save button
PageSaveInlineEdit ==
  /\ page.loaded
  /\ ~page.longPreviewSectionHidden
  /\ ~page.inlineLongEditModeHidden
  /\ page' = saveInlineEdit(page)
  /\ UNCHANGED <<fn, arg, arg2, given, pc, out, out2>>

\* a click on the inline cancel button
PageCancelInlineEdit ==
  /\ page.loaded
  /\ ~page.longPreviewSectionHidden
  /\ ~page.inlineLongEditModeHidden
  /\ page' = cancelInlineEdit(page)
  /\ UNCHANGED <<fn, arg, arg2, given, pc, out, out2>>

\* showEditMode('long')
PageShowEditMode ==
  /\ page.loaded
  /\ ~page.resultsSectionHidden
  /\ page.longEditModeHidden
  /\ page' = [page EXCEPT !.longEditModeHidden = FALSE]
  /\ UNCHANGED <<fn, arg, arg2, given, pc, out, out2>>

\* the user types in the edit field of the results section
PageTypeEdit ==
  /\ page.loaded
  /\ ~page.resultsSectionHidden
  /\ ~page.longEditModeHidden
  /\ \E text \in EditedTexts :
       page' = [page EXCEPT !.longEdit = Html(text, <<"longEdit">>)]
  /\ UNCHANGED <<fn, arg, arg2, given, pc, out, out2>>

\* a click on the save button of the results section
PageSaveEdit ==
  /\ page.loaded
  /\ ~page.resultsSectionHidden
  /\ ~page.longEditModeHidden
  /\ page' = saveEdit(page)
  /\ UNCHANGED <<fn, arg, arg2, given, pc, out, out2>>

\* a click on the cancel button of the results section
PageCancelEdit ==
  /\ page.loaded
  /\ ~page.resultsSectionHidden
  /\ ~page.longEditModeHidden
  /\ page' = cancelEdit(page)
  /\ UNCHANGED <<fn, arg, arg2, given, pc, out, out2>>

\* a click on the reset button of the results section
PageResetAll ==
  /\ page.loaded
  /\ ~page.resultsSectionHidden
  /\ page' = resetAll(page)
  /\ UNCHANGED <<fn, arg, arg2, given, pc, out, out2>>

\* the input event of the short description: handleTextInput
PageInputShort ==
  /\ page.loaded
  /\ page.currentMode = "text"
  /\ \E text \in ShortInputs :
       page' = [page EXCEPT !.shortInput = text,
                            !.enhanceShortBtnDisabled = (trim(text) = <<>>)]
  /\ UNCHANGED <<fn, arg, arg2, given, pc, out, out2>>

\* a click on a mode button
PageSwitchMode ==
  /\ page.loaded
  /\ \E mode \in {"text", "pdf"} : page' = switchMode(page, mode)
  /\ UNCHANGED <<fn, arg, arg2, given, pc, out, out2>>

\* a click on the enhance button of the short description:
\* enhanceShortDescription() up to its await of fetch (one such request is in
\* flight at a time)
PageClickEnhanceShort ==
  /\ page.loaded
  /\ page.currentMode = "text"
  /\ ~page.enhanceShortBtnDisabled
  /\ "short" \notin page.inFlight
  /\ page' = IF trim(page.shortInput) = <<>> THEN page
             ELSE setLoading([page EXCEPT !.inFlight = @ \cup {"short"}], TRUE)
  /\ UNCHANGED <<fn, arg, arg2, given, pc, out, out2>>

\* enhanceShortDescription() from the answer of its fetch on
PageAnswerEnhanceShort ==
  /\ page.loaded
  /\ "short" \in page.inFlight
  /\ \E data \in EnhanceAnswers :
       page' = setLoading(IF data.status # 200
                          THEN [page EXCEPT !.inFlight = @ \ {"short"}]
                          ELSE displayShortResult([page EXCEPT !.inFlight = @ \ {"short"}], data),
                          FALSE)
  /\ UNCHANGED <<fn, arg, arg2, given, pc, out, out2>>

\* enhanceLongDescription() up to its await of fetch
PageClickEnhanceLong ==
  /\ page.loaded
  /\ page.currentMode = "text"
  /\ ~page.enhanceLongBtnDisabled
  /\ "long" \notin page.inFlight
  /\ page' = IF trim(page.longInput) = <<>> THEN page
             ELSE setLoading([page EXCEPT !.inFlight = @ \cup {"long"}], TRUE)
  /\ UNCHANGED <<fn, arg, arg2, given, pc, out, out2>>

\* enhanceLongDescription() from the answer of its fetch on
PageAnswerEnhanceLong ==
  /\ page.loaded
  /\ "long" \in page.inFlight
  /\ \E data \in EnhanceAnswers :
       page' = setLoading(IF data.status # 200
                          THEN [page EXCEPT !.inFlight = @ \ {"long"}]
                          ELSE displayLongResult([page EXCEPT !.inFlight = @ \ {"long"}], data),
                          FALSE)
  /\ UNCHANGED <<fn, arg, arg2, given, pc, out, out2>>

\* extractFromPDF() up to its await of fetch
PageClickExtract ==
  /\ page.loaded
  /\ page.currentMode = "pdf"
  /\ page.selectedFile
  /\ "pdf" \notin page.inFlight
  /\ page' = setLoading([page EXCEPT !.inFlight = @ \cup {"pdf"}], TRUE)
  /\ UNCHANGED <<fn, arg, arg2, given, pc, out, out2>>

\* extractFromPDF() from the answer of its fetch on
PageAnswerExtract ==
  /\ page.loaded
  /\ "pdf" \in page.inFlight
  /\ \E data \in ExtractAnswers :
       page' = setLoading(IF data.status # 200
                          THEN [page EXCEPT !.inFlight = @ \ {"pdf"}]
                          ELSE displayPdfResults([page EXCEPT !.inFlight = @ \ {"pdf"}], data),
                          FALSE)
  /\ UNCHANGED <<fn, arg, arg2, given, pc, out, out2>>

\* showInlineEditMode('short')
PageShowInlineEditShort ==
  /\ page.loaded
  /\ ~page.shortPreviewSectionHidden
  /\ page.inlineShortEditModeHidden
  /\ page' = [page EXCEPT !.inlineShortEditModeHidden = FALSE]
  /\ UNCHANGED <<fn, arg, arg2, given, pc, out, out2>>

\* the user types in the inline edit field of the short description
PageTypeInlineEditShort ==
  /\ page.loaded
  /\ ~page.shortPreviewSectionHidden
  /\ ~page.inlineShortEditModeHidden
  /\ \E text \in EditedShorts : page' = [page EXCEPT !.inlineShortEdit = text]
  /\ UNCHANGED <<fn, arg, arg2, given, pc, out, out2>>

\* a click on the inline save button of the short description
PageSaveInlineEditShort ==
  /\ page.loaded
  /\ ~page.shortPreviewSectionHidden
  /\ ~page.inlineShortEditModeHidden
  /\ page' = saveInlineEditShort(page)
  /\ UNCHANGED <<fn, arg, arg2, given, pc, out, out2>>

\* a click on the inline cancel button of the short description
PageCancelInlineEditShort ==
  /\ page.loaded
  /\ ~page.shortPreviewSectionHidden
  /\ ~page.inlineShortEditModeHidden
  /\ page' = cancelInlineEditShort(page)
  /\ UNCHANGED <<fn, arg, arg2, given, pc, out, out2>>

\* calculateConfidence(arg, arg2)
CallCalculateConfidence ==
  /\ pc = "ready"
  /\ fn' = "calculateConfidence"
  /\ out' = Return(calculateConfidence(arg, arg2))
  /\ pc' = "returned"
  /\ UNCHANGED <<arg, arg2, given, out2, page>>

\* calculateConfidence on arg and on arg2 with one more factor established
ConfidenceWithFactor ==
  /\ pc = "returned"
  /\ fn = "calculateConfidence"
  /\ \E factor \in Factors :
       /\ ~hasFactor(arg2, factor)
       /\ given' = [kind |-> "factor", factor |-> factor]
       /\ out2' = Return(calculateConfidence(arg, withFactor(arg2, factor)))
  /\ pc' = "returned2"
  /\ UNCHANGED <<fn, arg, arg2, out, page>>

\* POST /api/extract-pdf with a PDF whose text is arg and whose analysis is arg2
ApiExtractText ==
  /\ pc = "ready"
  /\ \E parsed \in BOOLEAN, generated \in Generations :
       \E extracted \in {extractFromPDF(parsed, arg, arg2, generated)} :
         /\ out' = apiExtractPdf("pdf", extracted)
         /\ given' = [kind |-> "extract", upload |-> "pdf", extracted |-> extracted]
  /\ fn' = "POST /api/extract-pdf"
  /\ pc' = "returned"
  /\ UNCHANGED <<arg, arg2, out2, page>>

\* the sanitizer on strings with constructs nested in one another
Init ==
  /\ InitCommon
  /\ arg \in {JsString(s) : s \in Nested(MaxNest)}
  /\ arg2 = JsUndefined
  /\ given = NoParts

Next == CallSanitizeHTML \/ SanitizeAgain

Spec == Init /\ [][Next]_vars

\* the validator on the sanitizer's output, for the same strings
NextValidate == CallSanitizeHTML \/ ValidateSanitized

SpecValidate == Init /\ [][NextValidate]_vars

\* the sanitizer on one element <tag>text</tag>
InitElement ==
  /\ InitCommon
  /\ \E tag \in ElementTags, text \in Concats(TextParts, MaxTextParts) :
       /\ arg = JsString(element(tag, text))
       /\ given = [kind |-> "element", tag |-> tag, text |-> text,
                   attrs |-> <<>>, decls |-> <<>>]
  /\ arg2 = JsUndefined

NextElement == CallSanitizeHTML

SpecElement == InitElement /\ [][NextElement]_vars

\* the sanitizer on text without markup
InitPlain ==
  /\ InitCommon
  /\ arg \in {JsString(s) : s \in Concats(PlainParts, MaxPlainParts)}
  /\ arg2 = JsUndefined
  /\ given = NoParts

NextPlain == CallSanitizeHTML

SpecPlain == InitPlain /\ [][NextPlain]_vars

\* the sanitizer on one allowed element with a style attribute
InitStyle ==
  /\ InitCommon
  /\ \E tag \in StyleTags, attrs \in OtherAttributes,
        decls \in SeqsUpTo(Declarations, MaxDecls) :
       /\ arg = JsString(styledElement(tag, attrs, decls))
       /\ given = [kind |-> "styled", tag |-> tag, text |-> <<"X">>,
                   attrs |-> attrs, decls |-> decls]
  /\ arg2 = JsUndefined

NextStyle == CallSanitizeHTML

SpecStyle == InitStyle /\ [][NextStyle]_vars

\* every function of the core on JavaScript values of every type
InitValues ==
  /\ InitCommon
  /\ arg \in JsValues
  /\ arg2 \in {JsUndefined, JsString(<<>>), JsString(<<"a","c","t"," ","n","o","w">>)}
  /\ given = NoParts

NextValues ==
  \/ CallSanitizeHTML
  \/ CallCheckCompliance
  \/ CallHasDisclaimer
  \/ CallEnsureDisclaimer

SpecValues == InitValues /\ [][NextValues]_vars

\* the two endpoints of the server, and the scanner on the same request
InitApi ==
  /\ InitCommon
  /\ arg \in RequestValues
  /\ arg2 \in RequestValues
  /\ given = NoParts

NextApi ==
  \/ ApiEnhance
  \/ ApiExtractPdf
  \/ CallCheckCompliance

SpecApi == InitApi /\ [][NextApi]_vars

\* the compliance scanner on texts with the rules' words
InitCompliance ==
  /\ InitCommon
  /\ arg \in {JsNull} \cup {JsString(s) : s \in ComplianceTexts}
  /\ arg2 \in {JsNull} \cup {JsString(s) : s \in ComplianceParts}
  /\ given = NoParts

NextCompliance == CallCheckCompliance

SpecCompliance == InitCompliance /\ [][NextCompliance]_vars

\* the compliance scanner on two texts together, and on each of them alone
InitJoin ==
  /\ InitCommon
  /\ arg \in JoinShorts
  /\ arg2 \in JoinLongs
  /\ given = NoParts

NextJoin == CallCheckCompliance \/ CallCheckApart

SpecJoin == InitJoin /\ [][NextJoin]_vars

\* the compliance scanner on a text, and on the text with a keyword added
InitMonotone ==
  /\ InitCommon
  /\ \E text \in Concats(CleanParts, MaxCleanParts), k \in DOMAIN KeywordLetters :
       \E word \in Spellings(KeywordLetters[k]), at \in 0..Len(text) :
         /\ arg = JsString(text)
         /\ given = [kind |-> "keyword", text |-> text, keyword |-> k,
                     word |-> word, at |-> at]
  /\ arg2 \in {JsString(<<>>)}

NextMonotone == CallCheckCompliance \/ ScanWithKeyword

SpecMonotone == InitMonotone /\ [][NextMonotone]_vars

\* the compliance scanner on a keyword written alone or inside a longer word
InitWithin ==
  /\ InitCommon
  /\ \E k \in DOMAIN KeywordLetters, left \in LeftGlue, right \in RightGlue,
        before \in TextsBefore, after \in TextsAfter :
       \E word \in Spellings(KeywordLetters[k]) :
         /\ arg = JsString(before \o left \o word \o right \o after)
         /\ given = [kind |-> "within", keyword |-> k, word |-> word,
                     left |-> left, right |-> right]
  /\ arg2 = JsNull

NextWithin == CallCheckCompliance

SpecWithin == InitWithin /\ [][NextWithin]_vars

\* the disclaimer manager on null, on the empty string and on long descriptions
InitDisclaimer ==
  /\ InitCommon
  /\ arg \in {JsNull, JsUndefined} \cup {JsString(s) : s \in DisclaimerTexts}
  /\ arg2 = JsUndefined
  /\ given = NoParts

NextDisclaimer ==
  \/ CallHasDisclaimer
  \/ CallEnsureDisclaimer
  \/ EnsureAgain

SpecDisclaimer == InitDisclaimer /\ [][NextDisclaimer]_vars

\* the publishing validation on short and long descriptions
InitPublish ==
  /\ InitCommon
  /\ arg \in PublishShorts
  /\ arg2 \in PublishLongs
  /\ given = NoParts

NextPublish ==
  \/ CallValidateForPublishing
  \/ CallCheckCompliance

SpecPublish == InitPublish /\ [][NextPublish]_vars

\* two simultaneous requests whose calls of the core interleave
InitShared ==
  /\ fn = "none"
  /\ pc = "serving"
  /\ out = NoCall
  /\ out2 = NoCall
  /\ page = NoPage
  /\ arg \in RequestCalls
  /\ arg2 \in OtherRequestCalls
  /\ given = [kind |-> "shared", rules |-> LoadedRules]

NextShared ==
  \/ ServeFirst
  \/ ServeSecond

SpecShared == InitShared /\ [][NextShared]_vars

\* the confidence score on raw texts and analyses
InitConfidence ==
  /\ InitCommon
  /\ arg \in RawTexts
  /\ arg2 \in Analyses
  /\ given = NoParts

NextConfidence ==
  \/ CallCalculateConfidence
  \/ ConfidenceWithFactor
  \/ ApiExtractText

SpecConfidence == InitConfidence /\ [][NextConfidence]_vars

\* the front end in a browser, with CONFIG.workerUrl set or left empty; given
\* holds what the page's requests can be answered: by the worker, by
\* /api/enhance to the body { shortDescription: null, longDescription: the
\* trimmed input } for every input of the page, and by /api/extract-pdf
InitPage ==
  /\ fn = "none"
  /\ pc = "ready"
  /\ out = NoCall
  /\ out2 = NoCall
  /\ arg = JsUndefined
  /\ arg2 = JsUndefined
  /\ given = [kind |-> "page",
              worker |-> {handleEnhancement(w) : w \in WorkerEnvironments},
              enhance |-> [text \in LongInputs |->
                             {serverEnhance(JsNull, JsString(trim(text)), env) :
                                env \in PageEnvironments}],
              extract |-> {serverExtractPdf("pdf", e) : e \in PageExtractions}]
  /\ page \in {LoadedPage(workerUrl) : workerUrl \in BOOLEAN}

NextPage ==
  \/ PageInput
  \/ PageSelectFile
  \/ PageEnhanceLong
  \/ PageExtractFromPDF
  \/ PageShowInlineEditMode
  \/ PageTypeInlineEdit
  \/ PageSaveInlineEdit
  \/ PageCancelInlineEdit
  \/ PageShowEditMode
  \/ PageTypeEdit
  \/ PageSaveEdit
  \/ PageCancelEdit
  \/ PageResetAll

SpecPage == InitPage /\ [][NextPage]_vars

\* the front end with its requests in flight: the answers arrive between the
\* user's other events.  Of the edit fields the inline one of the short
\* description is followed; the others are in SpecPage.
InitAsync ==
  /\ fn = "none"
  /\ pc = "ready"
  /\ out = NoCall
  /\ out2 = NoCall
  /\ arg = JsUndefined
  /\ arg2 = JsUndefined
  /\ given = NoParts
  /\ page = LoadedPage(TRUE)

NextAsync ==
  \/ PageInputShort
  \/ PageInput
  \/ PageSelectFile
  \/ PageSwitchMode
  \/ PageClickEnhanceShort
  \/ PageAnswerEnhanceShort
  \/ PageClickEnhanceLong
  \/ PageAnswerEnhanceLong
  \/ PageClickExtract
  \/ PageAnswerExtract
  \/ PageShowInlineEditShort
  \/ PageTypeInlineEditShort
  \/ PageSaveInlineEditShort
  \/ PageCancelInlineEditShort
  \/ PageResetAll

SpecAsync == InitAsync /\ [][NextAsync]_vars

(***************************************************************************)
(* Properties of the sanitizer's output, stated on the text alone.         *)
(***************************************************************************)
\* a returned call of sanitizeHTML
Sanitized == fn = "sanitizeHTML" /\ pc \in {"returned", "returned2"}

\* lit occurs in s, in any letter case
ContainsCI(s, lit) == \E i \in 1..Len(s) : LitAtCI(s, i, lit)

\* a tag-like substring starts at i: "<" or "</" followed by a letter
TagLikeAt(s, i) ==
  /\ s[i] = "<"
  /\ LET n == IF i + 1 <= Len(s) /\ s[i + 1] = "/" THEN i + 2 ELSE i + 1
     IN  n <= Len(s) /\ s[n] \in LetterSet

\* its name, case-folded
TagLikeName(s, i) ==
  LET n == IF s[i + 1] = "/" THEN i + 2 ELSE i + 1
  IN  toLowerCase(Slice(s, n, RunEnd(s, n, AlnumSet) - 1))

\* what stands between the name of the tag-like substring at i and its ">"
\* (to the end of the text when no ">" follows)
TagLikeRest(s, i) ==
  LET n == IF s[i + 1] = "/" THEN i + 2 ELSE i + 1
      e == RunEnd(s, n, AlnumSet)
      g == FindChar(s, e, {">"})
  IN  Slice(s, e, IF g = 0 THEN Len(s) ELSE g - 1)

\* a declaration "property: value" of an allowed property
AllowedDeclaration(d) ==
  LET c == FindChar(d, 1, {":"})
  IN  c # 0 /\ toLowerCase(trim(Slice(d, 1, c - 1))) \in ALLOWED_STYLE_PROPERTIES

\* rest is empty, or exactly one attribute style="..." whose declarations are
\* all of allowed properties
OnlySafeStyle(rest) ==
  \/ rest = <<>>
  \/ /\ Len(rest) >= 9
     /\ LitAt(rest, 1, <<" ","s","t","y","l","e","=","\"">>)
     /\ rest[Len(rest)] = "\""
     /\ LET value == Slice(rest, 9, Len(rest) - 1)
            decls == split(value, ";")
        IN  /\ \A k \in 1..Len(value) : value[k] \notin QuoteSet
            /\ \A k \in 1..Len(decls) : AllowedDeclaration(decls[k])

\* an event-handler pattern: "on", word characters, "=" (any letter case)
HasEventHandler(s) ==
  \E i \in 1..Len(s) : \E j \in (i + 3)..Len(s) :
    /\ LitAtCI(s, i, <<"o","n">>)
    /\ s[j] = "="
    /\ \A k \in (i + 2)..(j - 1) : s[k] \in WordSet

\* r is s without its leading and trailing white space
IsTrimOf(r, s) ==
  \E i \in 1..(Len(s) + 1) : \E j \in (i - 1)..Len(s) :
    /\ r = Slice(s, i, j)
    /\ \A k \in 1..(i - 1) : s[k] \in SpaceSet
    /\ \A k \in (j + 1)..Len(s) : s[k] \in SpaceSet
    /\ (r # <<>> => r[1] \notin SpaceSet /\ r[Len(r)] \notin SpaceSet)

\* text without markup characters in which none of the scheme and
\* event-handler patterns of the first pass matches
PlainAndHarmless(text) ==
  /\ \A k \in 1..Len(text) : text[k] \notin {"<", ">"}
  /\ \A k \in 1..4 : NextMatch(text, 1, DANGEROUS_PATTERNS[k]) = 0

(***************************************************************************)
(* C1. sanitizeHTML is idempotent: sanitizing its own output again gives   *)
(* the same text.                                                          *)
(***************************************************************************)
C1_Idempotent ==
  (fn = "sanitizeHTML" /\ pc = "returned2") => out2 = out

(***************************************************************************)
(* C2. Whitelist closure: every tag-like substring of the output has an    *)
(* allowed name and carries no attribute but a style attribute whose       *)
(* declarations are all font-size or font-style.                           *)
(***************************************************************************)
C2_WhitelistClosure ==
  Sanitized =>
    \A i \in 1..Len(out.value) :
      TagLikeAt(out.value, i) =>
        /\ TagLikeName(out.value, i) \in ALLOWED_TAGS
        /\ OnlySafeStyle(TagLikeRest(out.value, i))

(***************************************************************************)
(* C3. Dangerous-content elimination: the output holds no "<script", no    *)
(* "javascript:" and no event-handler pattern, in any letter case.         *)
(***************************************************************************)
C3_NoDangerousContent ==
  Sanitized =>
    /\ ~ContainsCI(out.value, <<"<","s","c","r","i","p","t">>)
    /\ ~ContainsCI(out.value, JAVASCRIPT_SCHEME)
    /\ ~HasEventHandler(out.value)

(***************************************************************************)
(* C4. The output holds neither "vbscript:" nor "data:", in any letter     *)
(* case.                                                                   *)
(***************************************************************************)
C4_NoOtherSchemes ==
  Sanitized =>
    /\ ~ContainsCI(out.value, VBSCRIPT_SCHEME)
    /\ ~ContainsCI(out.value, DATA_SCHEME)

(***************************************************************************)
(* C5. sanitizeHTML is total: it throws for no argument, and returns the   *)
(* empty string for null, undefined, the empty string and every value that *)
(* is not a string.                                                        *)
(***************************************************************************)
C5_Total ==
  (fn = "sanitizeHTML" /\ pc = "returned") =>
    /\ ~out.raised
    /\ (arg.type # "string" \/ arg.str = <<>>) => out.value = <<>>

\* C5: sanitizeHTML has returned '' for a truthy value that is not a string
C5_Witness ==
  /\ fn = "sanitizeHTML"
  /\ pc = "returned"
  /\ arg.type \in {"number", "object", "array"}
  /\ Truthy(arg)
  /\ out = Return(<<>>)

(***************************************************************************)
(* C6. checkCompliance, hasDisclaimer and ensureDisclaimer throw for no    *)
(* argument, and for an argument that is neither a string nor null or      *)
(* undefined each returns what it returns for the empty string.            *)
(***************************************************************************)
C6_TotalOnNonStrings ==
  (pc = "returned" /\ fn \in {"checkCompliance", "hasDisclaimer", "ensureDisclaimer"}) =>
    /\ ~out.raised
    /\ arg.type \notin {"string", "null", "undefined"} =>
         out = CASE fn = "checkCompliance" -> checkCompliance(JsString(<<>>), arg2)
                 [] fn = "hasDisclaimer" -> hasDisclaimer(JsString(<<>>))
                 [] fn = "ensureDisclaimer" -> ensureDisclaimer(JsString(<<>>))

(***************************************************************************)
(* C7. Of an element whose tag is neither allowed nor a dangerous          *)
(* container, sanitizeHTML deletes the two tag markers only.               *)
(***************************************************************************)
\* the element of the input is one the claim is about
C7_Unwrapped ==
  /\ fn = "sanitizeHTML"
  /\ pc = "returned"
  /\ given.kind = "element"
  /\ given.tag \notin ALLOWED_TAGS \cup DangerousContainers

\* C7 as claimed: the enclosed text is left in place and unchanged
C7_TextUnchanged == C7_Unwrapped => out.value = given.text

\* C7 as amended: when the enclosed text has no markup character and no match of
\* the scheme and event-handler patterns, the output is that text without its
\* leading and trailing white space
C7_TextKeptTrimmed ==
  (C7_Unwrapped /\ PlainAndHarmless(given.text)) => IsTrimOf(out.value, given.text)

\* C7: a <div> around harmless text with white space at an end was unwrapped
C7_Witness ==
  /\ C7_Unwrapped
  /\ given.tag = <<"d","i","v">>
  /\ PlainAndHarmless(given.text)
  /\ out.value # <<>>
  /\ out.value # given.text
  /\ IsTrimOf(out.value, given.text)

(***************************************************************************)
(* C8. Of a script, style, iframe, object or embed element written as      *)
(* opening tag, content, closing tag, sanitizeHTML removes the whole       *)
(* block: nothing of the content is left.                                  *)
(***************************************************************************)
C8_BlockRemoved ==
  (fn = "sanitizeHTML" /\ pc = "returned" /\ given.kind = "element"
     /\ given.tag \in DangerousContainers) => out.value = <<>>

(***************************************************************************)
(* C9. Style sub-contract: on an allowed opening tag a declaration         *)
(* survives only if its property is font-size or font-style and its value, *)
(* case-folded, holds none of "expression", "javascript", "url("; the      *)
(* survivors are written "property: value" joined by "; ", and every other *)
(* attribute is dropped.                                                   *)
(***************************************************************************)
\* the declaration as the claim has it written, in a one-element sequence, or
\* <<>> when the claim has it dropped
C9_Survivor(d) ==
  LET c == FindChar(d, 1, {":"})
      property == toLowerCase(trim(Slice(d, 1, c - 1)))
      value == trim(Slice(d, c + 1, Len(d)))
      folded == toLowerCase(value)
  IN  IF /\ c # 0
         /\ property \in ALLOWED_STYLE_PROPERTIES
         /\ ~includes(folded, EXPRESSION_MARK)
         /\ ~includes(folded, JAVASCRIPT_MARK)
         /\ ~includes(folded, URL_MARK)
      THEN << property \o <<":", " ">> \o value >>
      ELSE <<>>

RECURSIVE C9_Survivors(_, _)
C9_Survivors(decls, k) ==
  IF k > Len(decls) THEN <<>>
  ELSE C9_Survivor(decls[k]) \o C9_Survivors(decls, k + 1)

\* the element the claim has sanitizeHTML return
C9_Claimed ==
  LET style == join(C9_Survivors(given.decls, 1), <<";", " ">>)
  IN  <<"<">> \o given.tag
        \o (IF style = <<>> THEN <<>>
            ELSE <<" ","s","t","y","l","e","=","\"">> \o style \o <<"\"">>)
        \o <<">">> \o given.text \o <<"<", "/">> \o given.tag \o <<">">>

C9_StyleContract ==
  (fn = "sanitizeHTML" /\ pc = "returned" /\ given.kind = "styled") =>
    out.value = C9_Claimed

(***************************************************************************)
(* C10. Text without markup is returned by sanitizeHTML as it is.          *)
(***************************************************************************)
\* sanitizeHTML has returned for a string without "<" and ">"
C10_NoMarkup ==
  /\ fn = "sanitizeHTML"
  /\ pc = "returned"
  /\ arg.type = "string"
  /\ \A k \in 1..Len(arg.str) : arg.str[k] \notin {"<", ">"}

\* C10 as claimed: text without markup is returned unchanged
C10_Unchanged == C10_NoMarkup => out.value = arg.str

\* C10 as amended: when none of the scheme and event-handler patterns matches in
\* the input, the output is the input without its leading and trailing white
\* space
C10_ReturnedTrimmed ==
  (C10_NoMarkup /\ PlainAndHarmless(arg.str)) => IsTrimOf(out.value, arg.str)

\* C10: harmless plain text with white space at an end came back trimmed
C10_Witness ==
  /\ C10_NoMarkup
  /\ PlainAndHarmless(arg.str)
  /\ out.value # <<>>
  /\ out.value # arg.str
  /\ IsTrimOf(out.value, arg.str)

(***************************************************************************)
(* Properties of the compliance scanner and of the server's responses.     *)
(***************************************************************************)
\* a returned call of checkCompliance
Scanned == fn = "checkCompliance" /\ pc = "returned" /\ ~out.raised

\* a successful response of POST /api/enhance
Enhanced == fn = "POST /api/enhance" /\ pc = "returned" /\ out.status = 200

\* a successful response of POST /api/extract-pdf
Extracted == fn = "POST /api/extract-pdf" /\ pc = "returned" /\ out.status = 200

NoDuplicates(list) ==
  \A i, j \in 1..Len(list) : i # j => list[i] # list[j]

\* the text the scanner looks at, written from its two arguments
ScannedText(shortDescription, longDescription) ==
  stripTags(orEmpty(shortDescription) \o <<" ">> \o orEmpty(longDescription))

\* C11: the result of checkCompliance has hasIssues = true exactly when its
\* list of warnings is not empty, and no warning is listed twice; the same
\* holds of hasComplianceIssues and complianceWarnings in the merged result
\* that POST /api/enhance returns.
C11_IssuesIffWarnings ==
  /\ Scanned =>
       /\ out.value.hasIssues <=> (Len(out.value.warnings) > 0)
       /\ NoDuplicates(out.value.warnings)
  /\ Enhanced =>
       /\ out.hasComplianceIssues <=> (Len(out.complianceWarnings) > 0)
       /\ NoDuplicates(out.complianceWarnings)

\* a merged result where the scan of the request and the scan of the output
\* have a warning in common
C11_Witness ==
  /\ Enhanced
  /\ LET stages == enhanceStages(arg, arg2, given.enhanced.value)
     IN  \E i \in 1..Len(stages.inputCompliance.warnings) :
           hasWarning(stages.outputCompliance.warnings,
                      stages.inputCompliance.warnings[i])

\* the rules matching a text
MatchedKeywords(plainText) ==
  {k \in 1..Len(PROHIBITED_KEYWORDS) : test(PROHIBITED_KEYWORDS[k].pattern, plainText)}

MatchedManipulative(plainText) ==
  {k \in 1..Len(MANIPULATIVE_PATTERNS) : test(MANIPULATIVE_PATTERNS[k].pattern, plainText)}

\* the place of a warning in the claimed order: the keyword rules in
\* declaration order, then the messages by their first matching rule
\* (0: the warning belongs to no matching rule)
C12_Rank(w, plainText) ==
  LET keywords == {k \in MatchedKeywords(plainText) :
                     w = keywordWarning(PROHIBITED_KEYWORDS[k].keyword)}
      rules == {k \in MatchedManipulative(plainText) :
                  w = <<MANIPULATIVE_PATTERNS[k].message>>}
  IN  IF keywords # {} THEN CHOOSE k \in keywords : TRUE
      ELSE IF rules # {}
      THEN Len(PROHIBITED_KEYWORDS) + (CHOOSE k \in rules : \A m \in rules : k <= m)
      ELSE 0

\* C12: in every result of checkCompliance the warnings of the prohibited
\* keywords come first, in the declaration order of PROHIBITED_KEYWORDS,
\* followed by the messages of the manipulative patterns in the declaration
\* order of their first matching rule, each message once even when several
\* rules with the same message match; every matching rule is reported.
C12_WarningOrder ==
  Scanned =>
    LET plainText == ScannedText(arg, arg2)
        warnings == out.value.warnings
    IN  /\ \A i \in 1..Len(warnings) : C12_Rank(warnings[i], plainText) > 0
        /\ \A i, j \in 1..Len(warnings) :
             i < j => C12_Rank(warnings[i], plainText) < C12_Rank(warnings[j], plainText)
        /\ \A k \in MatchedKeywords(plainText) :
             hasWarning(warnings, keywordWarning(PROHIBITED_KEYWORDS[k].keyword))
        /\ \A k \in MatchedManipulative(plainText) :
             hasWarning(warnings, <<MANIPULATIVE_PATTERNS[k].message>>)

\* a scan where two keyword rules match, and two rules with the same message
C12_Witness ==
  /\ Scanned
  /\ LET plainText == ScannedText(arg, arg2)
     IN  /\ Cardinality(MatchedKeywords(plainText)) >= 2
         /\ \E k, m \in MatchedManipulative(plainText) :
              /\ k < m
              /\ MANIPULATIVE_PATTERNS[k].message = MANIPULATIVE_PATTERNS[m].message

\* the two scans of SpecMonotone have returned, and the first found nothing
C13_CleanThenAdded ==
  /\ fn = "checkCompliance" /\ pc = "returned2"
  /\ ~out.raised /\ ~out2.raised
  /\ ~out.value.hasIssues

\* the second scan reports the added keyword
C13_Reported ==
  /\ out2.value.hasIssues
  /\ hasWarning(out2.value.warnings,
                keywordWarning(PROHIBITED_KEYWORDS[given.keyword].keyword))

\* the added word stands alone: no letter, digit or underscore next to it
C13_WholeWord ==
  /\ given.at = 0 \/ given.text[given.at] \notin WordSet
  /\ given.at = Len(given.text) \/ given.text[given.at + 1] \notin WordSet

\* the added word is not between a "<" and the next ">"
C13_OutsideTags ==
  ~ \E p \in 1..given.at :
      /\ given.text[p] = "<"
      /\ \A m \in (p + 1)..given.at : given.text[m] # ">"
      /\ \E m \in (given.at + 1)..Len(given.text) : given.text[m] = ">"

\* C13 (as claimed): for any text on which checkCompliance reports
\* hasIssues = false and any prohibited keyword in any letter case, adding an
\* occurrence of the keyword to the text yields hasIssues = true with a
\* warning naming the keyword.
C13_Monotone == C13_CleanThenAdded => C13_Reported

\* C13 (amended): the same, for a keyword added as a whole word (no letter,
\* digit or underscore next to it) outside every "<...>".
C13_MonotoneWholeWord ==
  (C13_CleanThenAdded /\ C13_WholeWord /\ C13_OutsideTags) => C13_Reported

\* a keyword in capitals added as a whole word to a clean text with a tag
C13_Witness ==
  /\ C13_CleanThenAdded /\ C13_WholeWord /\ C13_OutsideTags
  /\ given.word = toUpperCase(given.word)
  /\ given.at > 0
  /\ \E p \in 1..Len(given.text) : given.text[p] = "<"
  /\ C13_Reported

\* the places where lit stands in s, in any letter case
Occurrences(s, lit) == {i \in 1..Len(s) : LitAtCI(s, i, lit)}

\* the occurrence of lit at i is a proper part of a longer word: a letter,
\* digit or underscore stands directly before or directly after it
InsideWord(s, i, lit) ==
  \/ i > 1 /\ s[i - 1] \in WordSet
  \/ i + Len(lit) <= Len(s) /\ s[i + Len(lit)] \in WordSet

\* lit occurs in s, and only inside longer words
OnlyInsideWords(s, lit) ==
  /\ Occurrences(s, lit) # {}
  /\ \A i \in Occurrences(s, lit) : InsideWord(s, i, lit)

\* the scan reports keyword k
Reported(k) ==
  hasWarning(out.value.warnings, keywordWarning(PROHIBITED_KEYWORDS[k].keyword))

\* C14 (as claimed): a text in which a keyword occurs solely as a proper part
\* of a longer word ('ultimately', 'bestow', 'nevertheless') produces no
\* warning for that keyword.
C14_WholeWordOnly ==
  (Scanned /\ given.kind = "within") =>
    \A k \in DOMAIN KeywordLetters :
      OnlyInsideWords(arg.str, KeywordLetters[k]) => ~Reported(k)

\* C14 (amended): the same, where the spellings a rule accepts count as the
\* keyword: 'guaranteed' and 'guarantees' for 'guarantee', 'dont miss' for
\* "don't miss".  A keyword none of whose spellings stands as a whole word
\* produces no warning.
C14_WholeSpellingOnly ==
  (Scanned /\ given.kind = "within") =>
    \A k \in DOMAIN KeywordLetters :
      (/\ OnlyInsideWords(arg.str, KeywordLetters[k])
       /\ \A alt \in PROHIBITED_KEYWORDS[k].pattern.alts :
            \A i \in Occurrences(arg.str, alt) : InsideWord(arg.str, i, alt))
        => ~Reported(k)

\* 'ULTIMATEly' between tags: the keyword of the rule is there, inside a word
C14_Witness ==
  /\ Scanned /\ given.kind = "within"
  /\ given.keyword = 7
  /\ given.word = toUpperCase(given.word)
  /\ given.left = <<>> /\ given.right = <<"l", "y">>
  /\ arg.str[1] = "<"
  /\ OnlyInsideWords(arg.str, KeywordLetters[7])
  /\ ~Reported(7)

(***************************************************************************)
(* Properties of the disclaimer manager.                                   *)
(***************************************************************************)
\* the lines of a text: what lies between its line terminators
LinesOf(s) ==
  LET byLineFeed == split(s, "\n")
  IN  UNION { LET byReturn == split(byLineFeed[n], "\r")
              IN  {byReturn[m] : m \in 1..Len(byReturn)} : n \in 1..Len(byLineFeed) }

\* an indicator is on a line: its first phrase, and its second one somewhere
\* after it
IndicatorOnLine(line, indicator) ==
  \E i \in 1..Len(line) :
    /\ LitAt(line, i, indicator.first)
    /\ \E j \in (i + Len(indicator.first))..(Len(line) + 1) :
         LitAt(line, j, indicator.second)

\* some indicator is on some line of the tag-stripped, lower-cased text
IndicatorIn(text) ==
  \E line \in LinesOf(toLowerCase(stripTags(text))) :
    \E k \in 1..Len(DISCLAIMER_INDICATORS) :
      IndicatorOnLine(line, DISCLAIMER_INDICATORS[k])

\* a returned call of hasDisclaimer
Detected == fn = "hasDisclaimer" /\ pc = "returned" /\ ~out.raised

\* C15: hasDisclaimer returns false for null and for the empty string, and
\* otherwise (for a string) true exactly when at least one disclaimer
\* indicator matches the tag-stripped, lower-cased text.
C15_HasDisclaimer ==
  (fn = "hasDisclaimer" /\ pc = "returned") =>
    /\ ~out.raised
    /\ (arg.type = "null" \/ arg.str = <<>>) => out.value = FALSE
    /\ (arg.type = "string" /\ arg.str # <<>>) => (out.value <=> IndicatorIn(arg.str))

\* a text whose only indicator is completed by stripping a tag with a line
\* break in it
C15_Witness ==
  /\ Detected
  /\ arg.type = "string"
  /\ out.value = TRUE
  /\ ~hasDisclaimer_NoStrip(arg).value

\* the standard disclaimer block
StandardBlock ==
  <<"<","p",">","<","e","m"," ","s","t","y","l","e","=","\"","f","o","n","t",
  "-","s","i","z","e",":"," ","s","m","a","l","l","e","r","\"",">","T","h",
  "i","s"," ","c","o","v","e","r","a","g","e"," ","h","a","s"," ","l","i","m",
  "i","t","a","t","i","o","n","s"," ","a","n","d"," ","e","x","c","l","u","s",
  "i","o","n","s","."," ","P","l","e","a","s","e"," ","r","e","v","i","e","w",
  " ","t","h","e"," ","f","u","l","l"," ","c","o","n","t","r","a","c","t"," ",
  "t","e","r","m","s"," ","f","o","r"," ","c","o","m","p","l","e","t","e"," ",
  "d","e","t","a","i","l","s"," ","o","n"," ","c","o","v","e","r","e","d"," ",
  "c","o","m","p","o","n","e","n","t","s",","," ","s","e","r","v","i","c","e",
  " ","r","e","q","u","i","r","e","m","e","n","t","s",","," ","a","n","d"," ",
  "e","x","c","l","u","s","i","o","n","s",".","<","/","e","m",">","<","/","p",
  ">">>

\* a returned call of ensureDisclaimer
Ensured == fn = "ensureDisclaimer" /\ pc \in {"returned", "returned2"} /\ ~out.raised

\* C16: ensureDisclaimer has exactly three outcomes: for null or empty input
\* the standard disclaimer block alone; for input on which hasDisclaimer is
\* true the input unchanged; otherwise the input verbatim, a blank-line gap,
\* and the standard disclaimer block.
C16_ThreeOutcomes ==
  (fn = "ensureDisclaimer" /\ pc \in {"returned", "returned2"}) =>
    /\ ~out.raised
    /\ out.value =
         (IF arg.type # "string" \/ arg.str = <<>> THEN StandardBlock
          ELSE IF IndicatorIn(arg.str) THEN arg.str
          ELSE arg.str \o <<"\n", "\n">> \o StandardBlock)

\* the third outcome, on a text that ends inside a tag
C16_Witness ==
  /\ Ensured
  /\ arg.type = "string" /\ arg.str # <<>>
  /\ ~IndicatorIn(arg.str)
  /\ arg.str[Len(arg.str)] = "\""
  /\ Len(out.value) = Len(arg.str) + 2 + Len(StandardBlock)

\* the distinguishing phrase of the standard disclaimer
DISTINGUISHING_PHRASE ==
  <<"l","i","m","i","t","a","t","i","o","n","s"," ","a","n","d"," ","e","x","c","l","u","s","i","o","n","s">>

\* how often the phrase stands in a text, in any letter case
PhraseCount(text) == Cardinality(Occurrences(text, DISTINGUISHING_PHRASE))

\* ensureDisclaimer was called on its own result
EnsuredTwice == fn = "ensureDisclaimer" /\ pc = "returned2" /\ ~out.raised /\ ~out2.raised

\* C17 (as claimed): for all x, ensureDisclaimer(ensureDisclaimer(x)) contains
\* exactly one occurrence of the distinguishing phrase 'limitations and
\* exclusions'.
C17_ExactlyOnePhrase == EnsuredTwice => PhraseCount(out2.value) = 1

\* C17 (amended): for all x on which hasDisclaimer is false (null and the
\* empty string included) and which do not contain the phrase themselves,
\* ensureDisclaimer(ensureDisclaimer(x)) contains exactly one occurrence of
\* it; for every x the second call adds no occurrence.
C17_OnePhraseWhenAdded ==
  EnsuredTwice =>
    /\ PhraseCount(out2.value) = PhraseCount(out.value)
    /\ (arg.type # "string" \/ (~IndicatorIn(arg.str) /\ PhraseCount(arg.str) = 0))
         => PhraseCount(out2.value) = 1

\* a text without disclaimer, after two calls
C17_Witness ==
  /\ EnsuredTwice
  /\ arg.type = "string" /\ arg.str # <<>>
  /\ ~IndicatorIn(arg.str)
  /\ PhraseCount(arg.str) = 0
  /\ PhraseCount(out2.value) = 1

\* C18: for all x, hasDisclaimer(ensureDisclaimer(x)) is true and a second
\* call changes nothing: ensureDisclaimer(ensureDisclaimer(x)) equals
\* ensureDisclaimer(x), whatever markup x ends with.
C18_SecondCallNoOp ==
  /\ Ensured => IndicatorIn(out.value)
  /\ (fn = "ensureDisclaimer" /\ pc = "returned2") => out2 = out

\* a text that ends inside an open tag, after two calls
C18_Witness ==
  /\ EnsuredTwice
  /\ arg.type = "string" /\ arg.str # <<>>
  /\ arg.str[Len(arg.str)] = "\""
  /\ out.value # arg.str
  /\ out2 = out

(***************************************************************************)
(* C19. In every successful response of POST /api/enhance and of           *)
(* POST /api/extract-pdf the stages ran in the order sanitizer, disclaimer *)
(* manager, compliance scanner: the returned longDescription is            *)
(* ensureDisclaimer(sanitizeHTML(generated long text)), the warnings of    *)
(* the scan of the returned short text and of exactly that final long text *)
(* are in the response (they are the response's warnings after an          *)
(* extraction), and the returned longDescription has a disclaimer.         *)
(***************************************************************************)
\* ensureDisclaimer(sanitizeHTML(generated)) for a generated long text
C19_Pipeline(generated) ==
  ensureDisclaimer(JsString(sanitizeHTML(generated).value)).value

\* the scan of the returned short and long descriptions
C19_OutputScan == checkCompliance(out.shortDescription, JsString(out.longDescription)).value

C19_FixedOrder ==
  /\ Enhanced =>
       /\ out.longDescription = C19_Pipeline(given.enhanced.value.longDescription)
       /\ \A scan \in {C19_OutputScan} :
            /\ \A k \in 1..Len(scan.warnings) :
                 hasWarning(out.complianceWarnings, scan.warnings[k])
            /\ scan.hasIssues => out.hasComplianceIssues
       /\ IndicatorIn(out.longDescription)
  /\ Extracted =>
       /\ out.longDescription = C19_Pipeline(given.extracted.longDescription)
       /\ \A scan \in {C19_OutputScan} :
            /\ out.complianceWarnings = scan.warnings
            /\ out.hasComplianceIssues = scan.hasIssues
       /\ IndicatorIn(out.longDescription)

\* an enhancement whose generated text had a disclaimer phrase only inside a
\* script element: the sanitizer removed it before the disclaimer manager
\* looked, so the block was added
C19_Witness ==
  /\ Enhanced
  /\ given.enhanced.value.longDescription.type = "string"
  /\ ContainsCI(given.enhanced.value.longDescription.str, DISTINGUISHING_PHRASE)
  /\ ContainsCI(given.enhanced.value.longDescription.str, <<"<","s","c","r","i","p","t",">">>)
  /\ out.longDescription = StandardBlock

(***************************************************************************)
(* C20. Every long description the front end has written into a preview    *)
(* element as HTML (after an enhancement, after an extraction or after a   *)
(* saved edit) passed through sanitizeHTML on its way from its origin to   *)
(* the preview, with CONFIG.workerUrl set or not.                          *)
(***************************************************************************)
\* the text passed the sanitizer on its way
PassedSanitizer(html) == \E k \in 1..Len(html.path) : html.path[k] = "sanitizeHTML"

C20_OnlySanitizedHtml ==
  page.loaded =>
    /\ page.inlineLongPreview.text # <<>> => PassedSanitizer(page.inlineLongPreview)
    /\ page.longPreview.text # <<>> => PassedSanitizer(page.longPreview)

(***************************************************************************)
(* C21. calculateConfidence returns a value from 0 to 1, and in every      *)
(* successful response of POST /api/extract-pdf lowConfidence is true      *)
(* exactly when the confidence of the response is below 0.8.               *)
(***************************************************************************)
Scored == fn = "calculateConfidence" /\ pc \in {"returned", "returned2"}

\* 0 <= x <= 1
InUnitRange(x) == ~LessThan(x, D_0) /\ ~LessThan(D_1, x)

C21_ConfidenceRange ==
  /\ Scored => ~out.raised /\ InUnitRange(out.value)
  /\ Extracted =>
       /\ InUnitRange(out.confidence)
       /\ out.confidence = given.extracted.confidence
       /\ out.lowConfidence <=> LessThan(out.confidence, D_0_8)

\* an extraction whose score is 0.5 + 0.1 + 0.1 + 0.1, the double just below
\* 0.8: it is flagged
C21_Witness ==
  /\ Extracted
  /\ out.confidence = Double(214748364, 429496720)
  /\ out.lowConfidence

(***************************************************************************)
(* C22: for any raw text and analysis, establishing one more positive      *)
(* factor with everything else equal (a product name, a product type,      *)
(* three coverage items, or a non-empty benefits, limitations or           *)
(* disclaimers list) makes calculateConfidence return a strictly greater   *)
(* value than before.                                                      *)
(***************************************************************************)
ScoredWithFactor ==
  fn = "calculateConfidence" /\ pc = "returned2" /\ given.kind = "factor"

C22_StrictlyGreater ==
  ScoredWithFactor => LessThan(out.value, out2.value)

\* C22 as amended: the value is strictly greater unless it was already 1, and
\* then it stays 1
C22_GreaterBelowOne ==
  ScoredWithFactor =>
    \/ LessThan(out.value, out2.value)
    \/ out.value = D_1 /\ out2.value = D_1

\* a product name raises a value below 1 to 1, where the sum is clamped
C22_Witness ==
  /\ ScoredWithFactor
  /\ given.factor = "productName"
  /\ LessThan(out.value, D_1)
  /\ out2.value = D_1

(***************************************************************************)
(* C23: POST /api/enhance with both descriptions empty, null or absent     *)
(* answers 400 EMPTY_INPUT and calls neither the enhancer nor the          *)
(* sanitizer nor the scanner; every request gets exactly one response:     *)
(* 400 EMPTY_INPUT, 200, or 500 SERVICE_ERROR when enhancement throws.     *)
(***************************************************************************)
EnhanceAnswered == fn = "POST /api/enhance" /\ pc = "returned"

\* empty, null or absent
EmptyField(v) == v \in {JsString(<<>>), JsNull, JsUndefined}

C23_OneResponse ==
  EnhanceAnswered =>
    /\ given.run.responses = <<out>>
    /\ \/ out.status = 400 /\ out.code = "EMPTY_INPUT"
       \/ out.status = 200
       \/ out.status = 500 /\ out.code = "SERVICE_ERROR" /\ given.enhanced.raised
    /\ EmptyField(arg) /\ EmptyField(arg2) =>
         /\ out.status = 400
         /\ out.code = "EMPTY_INPUT"
         /\ given.run.calls = <<>>
    /\ out.status = 200 =>
         given.run.calls = <<"enhanceDescriptions", "sanitizeHTML", "ensureDisclaimer",
                             "checkCompliance", "checkCompliance">>

\* a null short description and an absent long one are refused
C23_Witness ==
  /\ EnhanceAnswered
  /\ arg = JsNull
  /\ arg2 = JsUndefined
  /\ out.status = 400
  /\ given.run.calls = <<>>

(***************************************************************************)
(* C24: validateForPublishing returns valid = false exactly when the short *)
(* description contains an HTML tag; more than three sentences, a long     *)
(* description without disclaimer and compliance findings only add         *)
(* warnings and never make valid false.                                    *)
(***************************************************************************)
Validated == fn = "validateForPublishing" /\ pc = "returned" /\ ~out.raised

\* a tag as the compliance service reads one: "<", one or more characters
\* other than ">", and ">"
ContainsTag(s) ==
  \E i, j \in 1..Len(s) :
    /\ i + 2 <= j
    /\ s[i] = "<"
    /\ s[j] = ">"
    /\ \A k \in (i + 1)..(j - 1) : s[k] # ">"

Served == pc = "serving" /\ fn # "none"

C25_Stateless ==
  Served =>
    /\ out.result = performAlone(out.call)
    /\ given.rules = LoadedRules

\* the first request has made its two calls, the last one a scan that reports
\* a keyword, and the second request has made one of its own in between
C25_Witness ==
  /\ Served
  /\ arg = <<>>
  /\ Len(arg2) = 1
  /\ out.call.fn = "checkCompliance"
  /\ out.call.second = JsNull
  /\ out.result.value.hasIssues

(***************************************************************************)
(* C26: for every input, the output of sanitizeHTML contains no empty      *)
(* allowed-tag pair (an opening tag, optional white space and the matching *)
(* closing tag) other than empty paragraph pairs, which are kept.          *)
(***************************************************************************)
\* an empty pair of an allowed tag other than p stands at position i of s
EmptyPairAt(s, i) ==
  \E m \in {EmptyMatch(s, i)} :
    /\ m.end # 0
    /\ toLowerCase(m.tag) \in ALLOWED_TAGS \ {<<"p">>}

C26_NoEmptyPairs ==
  Sanitized => \A i \in 1..Len(out.value) : ~EmptyPairAt(out.value, i)

(***************************************************************************)
(* C27: in the front end the loading indicator is visible whenever an      *)
(* enhancement or extraction request is awaiting its response: with        *)
(* overlapping requests, the completion of one never hides the indicator   *)
(* while another is still pending.                                         *)
(***************************************************************************)
C27_LoadingWhilePending ==
  page.loaded /\ page.inFlight # {} => ~page.loadingHidden

(***************************************************************************)
(* C28: the sanitizer and the validator agree: for every input string x,   *)
(* validateHTML(sanitizeHTML(x)) returns valid = true with an empty list   *)
(* of issues.                                                              *)
(***************************************************************************)
C28_ValidatorAgrees ==
  (fn = "validateHTML" /\ pc = "returned2") =>
    out2.value.valid /\ out2.value.issues = <<>>

(***************************************************************************)
(* C29: scanning the two texts together is the same as scanning them       *)
(* apart: the warnings of checkCompliance(s, l) are exactly the            *)
(* duplicate-free union of the warnings of checkCompliance(s, '') and of   *)
(* checkCompliance('', l); joining the texts creates no warning and hides  *)
(* none.                                                                   *)
(***************************************************************************)
WarningSet(result) == {result.value.warnings[n] : n \in 1..Len(result.value.warnings)}

C29_JoinedIsUnion ==
  (fn = "checkCompliance" /\ pc = "returned2") =>
    /\ WarningSet(out) = WarningSet(out2.value.short) \cup WarningSet(out2.value.long)
    /\ Cardinality(WarningSet(out)) = Len(out.value.warnings)

\* joining the texts creates a warning that neither text triggers alone
C29_Created ==
  /\ fn = "checkCompliance" /\ pc = "returned2"
  /\ WarningSet(out) \ (WarningSet(out2.value.short) \cup WarningSet(out2.value.long)) # {}

\* joining the texts hides a warning that one of them triggers alone
C29_Hidden ==
  /\ fn = "checkCompliance" /\ pc = "returned2"
  /\ (WarningSet(out2.value.short) \cup WarningSet(out2.value.long)) \ WarningSet(out) # {}

(***************************************************************************)
(* C30: whenever a description preview is visible, currentResults holds    *)
(* exactly the text shown in that preview, after any interleaving of       *)
(* enhancement responses, extraction responses, mode switches, saves,      *)
(* cancels and resets.  A preview is taken as visible when its section is  *)
(* shown, its edit mode is closed and the page is in the section's mode.   *)
(***************************************************************************)
InlineShortVisible ==
  /\ page.currentMode = "text"
  /\ ~page.shortPreviewSectionHidden
  /\ page.inlineShortEditModeHidden

InlineLongVisible ==
  /\ page.currentMode = "text"
  /\ ~page.longPreviewSectionHidden
  /\ page.inlineLongEditModeHidden

ResultsVisible == page.currentMode = "pdf" /\ ~page.resultsSectionHidden

C30_ResultsMatchPreview ==
  page.loaded =>
    /\ InlineShortVisible => page.currentShort.str = page.inlineShortPreview
    /\ InlineLongVisible => page.currentResults = page.inlineLongPreview
    /\ (ResultsVisible /\ page.shortEditModeHidden) =>
         page.currentShort.str = page.shortPreview
    /\ (ResultsVisible /\ page.longEditModeHidden) =>
         page.currentResults = page.longPreview

====
